---------------------------- MODULE Spec2Model ----------------------------
(***************************************************************************)
(* A model of ts-compress-tool (TUCCHI1/ts-compress-tool).                 *)
(*                                                                         *)
(* Texts are sequences of one-character strings, so that the regular       *)
(* expression rules of the Textual Normalizer (compressor.ts,              *)
(* compressionRules) rewrite them character by character as                *)
(* String.prototype.replace does.                                          *)
(***************************************************************************)
EXTENDS Integers, Sequences, FiniteSets, TLC

VARIABLES
    \* calculateStats applied to a pair of sizes
    sPc,            \* "idle", "input" or "done"
    sOrig,          \* originalSize
    sComp,          \* compressedSize
    sStats,         \* the FileStats returned
    \* advancedCompress applied to a text, and to its own result
    nPc,            \* "idle", "input", "once" or "twice"
    nInput,         \* the text
    nOnce,          \* advancedCompress(nInput)
    nTwice,         \* advancedCompress(nOnce)
    \* defaultCompressionPipeline applied to a source text, stage by stage
    pPc,            \* "idle", "input", "stripped" or "done"
    pInput,         \* the source text
    pStripped,      \* removeCommentsWithAST(pInput)
    pOutput,        \* advancedCompress(pStripped)
    \* one batch run: compressTypeScriptFiles, or compressSelectedFiles
    bPc,            \* "idle", "start", "reading", "done" or "failed"
    bEntry,         \* "batch" (compressTypeScriptFiles) or "selected"
    bFiles,         \* the discovered file list (the menu's list for "selected")
    bSelection,     \* selectedIndices, in insertion order (0-based indices)
    bPreserve,      \* preserveStructure
    bTargets,       \* the files the run reads: files, or selectedFiles
    bIssued,        \* the positions whose read was issued
    bPending,       \* the positions whose read has not completed
    bSlots,         \* Promise.all's result array: <<v>> where filled, else << >>
    bOrder,         \* the positions in the order their reads completed
    bResult,        \* what the run returned, None before and on failure
    bError,         \* the error the run rejected with, None without
    bReads,         \* the paths readFile was called with, in call order
    bRejected,      \* the processFile promises that rejected: index and error
    \* one run of the command line: cliAction
    cPc,            \* "idle", "start", "menu", "continue" or "exited"
    cDirExists,     \* directoryExists(targetDir)
    cInteractive,   \* options.interactive
    cOutputFile,    \* options.output: a path, None without --output
    cPreserve,      \* options.preserveStructure
    cFiles,         \* what getTypeScriptFiles finds below the directory
    cSelection,     \* menuLoop's selectedIndices, in insertion order
    cMulti,         \* menuLoop's isMultiSelectMode
    cRlOpen,        \* the readline interface is open
    cRlCloses,      \* how often rl.close() was called
    cExit,          \* the exit code: 0 unless process.exit(1) is called
    cError,         \* the error cliAction caught, None without
    cMessage,       \* the last thing the run told the user
    cClipWrites,    \* how often the clipboard was written
    cClipText,      \* the text the clipboard was given last
    cFileWrites,    \* how often the output file was written
    cFileText,      \* the text the output file was given last
    \* the file filter applied to one name of a directory entry
    fPc,            \* "idle", "name" or "done"
    fName,          \* entry.name
    fAccepted,      \* filter(entry.name)
    \* a compression whose output goes to a sink: mainProcess in normal
    \* mode, or compressToClipboard
    oPc,            \* "idle", "start", "reading", "compressed", "piped",
                    \* "returned" or "failed"
    oCaller,        \* "mainProcess" or "compressToClipboard"
    oOutputFile,    \* options.output: a path, None without
    oFiles,         \* what getTypeScriptFiles finds
    oPending,       \* the positions whose read has not completed
    oCompleted,     \* the positions whose file was read and compressed
    oResult,        \* what compressTypeScriptFiles returned: <<result>>, << >> before
    oClipWrites,    \* how often a clipboard command was given a text
    oFileWrites,    \* how often the output file was written
    oSinkText,      \* the text the sink was given
    oExitCode,      \* the clipboard command's exit code: <<code>>, << >> before
    oReturned,      \* what the caller returned: <<result>>, << >> before
    oError          \* the error the caller threw, None without

statsVars == <<sPc, sOrig, sComp, sStats>>
normVars == <<nPc, nInput, nOnce, nTwice>>
pipeVars == <<pPc, pInput, pStripped, pOutput>>
batchVars == <<bPc, bEntry, bFiles, bSelection, bPreserve, bTargets, bIssued,
               bPending, bSlots, bOrder, bResult, bError, bReads, bRejected>>
cliVars == <<cPc, cDirExists, cInteractive, cOutputFile, cPreserve, cFiles,
             cSelection, cMulti, cRlOpen, cRlCloses, cExit, cError,
             cMessage,
             cClipWrites, cClipText, cFileWrites, cFileText>>
filterVars == <<fPc, fName, fAccepted>>
outVars == <<oPc, oCaller, oOutputFile, oFiles, oPending, oCompleted, oResult,
             oClipWrites, oFileWrites, oSinkText, oExitCode, oReturned, oError>>
vars == <<statsVars, normVars, pipeVars, batchVars, cliVars, filterVars, outVars>>

(***************************************************************************)
(* Character classes of the regular expressions.                           *)
(***************************************************************************)
Lower == {"a","b","c","d","e","f","g","h","i","j","k","l","m",
          "n","o","p","q","r","s","t","u","v","w","x","y","z"}

Upper == {"A","B","C","D","E","F","G","H","I","J","K","L","M",
          "N","O","P","Q","R","S","T","U","V","W","X","Y","Z"}

Digit == {"0","1","2","3","4","5","6","7","8","9"}

\* [A-Za-z] of the last rule
Alpha == Lower \cup Upper

\* \w
WordChar == Alpha \cup Digit \cup {"_"}

\* \s (the characters of it the model's texts use)
WS == {" ", "\t", "\n", "\r"}

\* the line terminators at which ^ and $ match under the m flag
LineTerm == {"\n", "\r"}

\* [{}:;,=()[\]<>] of the fourth rule
Punct == {"{", "}", ":", ";", ",", "=", "(", ")", "[", "]", "<", ">"}

(***************************************************************************)
(* Helpers on texts.                                                       *)
(***************************************************************************)
\* the first index >= i that holds no whitespace (Len(s)+1 when none): the
\* end of a greedy \s* or \s+ that starts at i
RECURSIVE SkipWs(_, _)
SkipWs(s, i) ==
    IF i <= Len(s) /\ s[i] \in WS THEN SkipWs(s, i + 1) ELSE i

\* the first index >= i that holds no word character: the end of a greedy \w+
RECURSIVE SkipWord(_, _)
SkipWord(s, i) ==
    IF i <= Len(s) /\ s[i] \in WordChar THEN SkipWord(s, i + 1) ELSE i

\* the last index p with lo <= p < hi and s[p] in cs, or 0: where a greedy
\* \s* gives back to let the rest of the pattern match
RECURSIVE LastIn(_, _, _, _)
LastIn(s, lo, hi, cs) ==
    IF hi <= lo THEN 0
    ELSE IF s[hi - 1] \in cs THEN hi - 1
    ELSE LastIn(s, lo, hi - 1, cs)

\* the literal lit stands in s at index i
MatchAt(s, i, lit) ==
    /\ i + Len(lit) - 1 <= Len(s)
    /\ \A k \in 1..Len(lit) : s[i + k - 1] = lit[k]

\* s from index i to its end
From(s, i) == IF i > Len(s) THEN << >> ELSE SubSeq(s, i, Len(s))

(***************************************************************************)
(* compressionRules, one operator per rule, each a global replace: the     *)
(* text is scanned left to right, a match is replaced and the scan goes on *)
(* behind it, a character no match starts at is copied.                    *)
(***************************************************************************)
\* [/\n\s*\n/g, '\n']
RECURSIVE Rule1From(_, _)
Rule1From(s, i) ==
    IF i > Len(s) THEN << >>
    ELSE IF s[i] = "\n"
         THEN LET k == SkipWs(s, i + 1)
                  p == LastIn(s, i + 1, k, {"\n"})
              IN  IF p # 0 THEN <<"\n">> \o Rule1From(s, p + 1)
                  ELSE <<s[i]>> \o Rule1From(s, i + 1)
         ELSE <<s[i]>> \o Rule1From(s, i + 1)

Rule1(s) == Rule1From(s, 1)

\* [/^\s+/gm, '']
RECURSIVE Rule2From(_, _)
Rule2From(s, i) ==
    IF i > Len(s) THEN << >>
    ELSE IF (i = 1 \/ s[i - 1] \in LineTerm) /\ s[i] \in WS
         THEN Rule2From(s, SkipWs(s, i))
         ELSE <<s[i]>> \o Rule2From(s, i + 1)

Rule2(s) == Rule2From(s, 1)

\* [/\s+$/gm, '']
RECURSIVE Rule3From(_, _)
Rule3From(s, i) ==
    IF i > Len(s) THEN << >>
    ELSE IF s[i] \in WS
         THEN LET k == SkipWs(s, i)
                  p == LastIn(s, i + 1, k, LineTerm)
              IN  IF k > Len(s) THEN << >>
                  ELSE IF p # 0 THEN Rule3From(s, p)
                  ELSE <<s[i]>> \o Rule3From(s, i + 1)
         ELSE <<s[i]>> \o Rule3From(s, i + 1)

Rule3(s) == Rule3From(s, 1)

\* [/\s*([{}:;,=()[\]<>])\s*/g, '$1']
RECURSIVE Rule4From(_, _)
Rule4From(s, i) ==
    IF i > Len(s) THEN << >>
    ELSE LET k == SkipWs(s, i)
         IN  IF k <= Len(s) /\ s[k] \in Punct
             THEN <<s[k]>> \o Rule4From(s, SkipWs(s, k + 1))
             ELSE <<s[i]>> \o Rule4From(s, i + 1)

\* the fourth rule without its g flag: only the first match is replaced
RECURSIVE Rule4FirstOnlyFrom(_, _)
Rule4FirstOnlyFrom(s, i) ==
    IF i > Len(s) THEN << >>
    ELSE LET k == SkipWs(s, i)
         IN  IF k <= Len(s) /\ s[k] \in Punct
             THEN <<s[k]>> \o From(s, SkipWs(s, k + 1))
             ELSE <<s[i]>> \o Rule4FirstOnlyFrom(s, i + 1)

Rule4FirstOnly(s) == Rule4FirstOnlyFrom(s, 1)

\* the fourth rule with \s? for \s*: at most one whitespace character goes
\* on either side
RECURSIVE Rule4OneSpaceFrom(_, _)
Rule4OneSpaceFrom(s, i) ==
    IF i > Len(s) THEN << >>
    ELSE LET k == IF s[i] \in WS /\ i < Len(s) /\ s[i + 1] \in Punct
                  THEN i + 1 ELSE i
         IN  IF s[k] \in Punct
             THEN <<s[k]>> \o Rule4OneSpaceFrom(s,
                      IF k < Len(s) /\ s[k + 1] \in WS THEN k + 2 ELSE k + 1)
             ELSE <<s[i]>> \o Rule4OneSpaceFrom(s, i + 1)

Rule4OneSpace(s) == Rule4OneSpaceFrom(s, 1)

Rule4(s) == Rule4From(s, 1)

\* a rule of the shape /pre\s*post/g (minWs = 0) or /pre\s+post/g
\* (minWs = 1) with the fixed replacement repl
RECURSIVE KeywordRuleFrom(_, _, _, _, _, _)
KeywordRuleFrom(s, i, pre, minWs, post, repl) ==
    IF i > Len(s) THEN << >>
    ELSE LET j == i + Len(pre)
             k == SkipWs(s, j)
         IN  IF MatchAt(s, i, pre) /\ k - j >= minWs /\ MatchAt(s, k, post)
             THEN repl \o KeywordRuleFrom(s, k + Len(post), pre, minWs, post, repl)
             ELSE <<s[i]>> \o KeywordRuleFrom(s, i + 1, pre, minWs, post, repl)

KeywordRule(s, pre, minWs, post, repl) ==
    KeywordRuleFrom(s, 1, pre, minWs, post, repl)

Keyword ==
    [import |-> <<"i","m","p","o","r","t">>,
     from |-> <<"f","r","o","m">>,
     export |-> <<"e","x","p","o","r","t">>,
     type |-> <<"t","y","p","e">>,
     const |-> <<"c","o","n","s","t">>,
     enum |-> <<"e","n","u","m">>,
     interface |-> <<"i","n","t","e","r","f","a","c","e">>]

\* [/import\s*{/g, 'import{']
Rule5(s) == KeywordRule(s, Keyword.import, 0, <<"{">>, Keyword.import \o <<"{">>)

\* [/}\s*from/g, '}from']
Rule6(s) == KeywordRule(s, <<"}">>, 0, Keyword.from, <<"}">> \o Keyword.from)

\* [/export\s*{/g, 'export{']
Rule7(s) == KeywordRule(s, Keyword.export, 0, <<"{">>, Keyword.export \o <<"{">>)

\* [/export\s+type/g, 'export type']
Rule8(s) ==
    KeywordRule(s, Keyword.export, 1, Keyword.type,
                Keyword.export \o <<" ">> \o Keyword.type)

\* [/export\s+const/g, 'export const']
Rule9(s) ==
    KeywordRule(s, Keyword.export, 1, Keyword.const,
                Keyword.export \o <<" ">> \o Keyword.const)

\* [/export\s+enum/g, 'export enum']
Rule10(s) ==
    KeywordRule(s, Keyword.export, 1, Keyword.enum,
                Keyword.export \o <<" ">> \o Keyword.enum)

\* [/export\s+interface/g, 'export interface']
Rule11(s) ==
    KeywordRule(s, Keyword.export, 1, Keyword.interface,
                Keyword.export \o <<" ">> \o Keyword.interface)

\* [/type\s+(\w+)\s*=/g, 'type $1=']
RECURSIVE Rule12From(_, _)
Rule12From(s, i) ==
    IF i > Len(s) THEN << >>
    ELSE LET j == i + Len(Keyword.type)
             k == SkipWs(s, j)
             w == SkipWord(s, k)
             e == SkipWs(s, w)
         IN  IF /\ MatchAt(s, i, Keyword.type)
                /\ k > j
                /\ w > k
                /\ e <= Len(s)
                /\ s[e] = "="
             THEN Keyword.type \o <<" ">> \o SubSeq(s, k, w - 1) \o <<"=">>
                    \o Rule12From(s, e + 1)
             ELSE <<s[i]>> \o Rule12From(s, i + 1)

Rule12(s) == Rule12From(s, 1)

\* [/:\s*([A-Za-z])/g, ':$1']
RECURSIVE Rule13From(_, _)
Rule13From(s, i) ==
    IF i > Len(s) THEN << >>
    ELSE LET k == SkipWs(s, i + 1)
         IN  IF s[i] = ":" /\ k <= Len(s) /\ s[k] \in Alpha
             THEN <<":", s[k]>> \o Rule13From(s, k + 1)
             ELSE <<s[i]>> \o Rule13From(s, i + 1)

Rule13(s) == Rule13From(s, 1)

\* compressionRules.reduce(applyRule, content): the rules in table order
applyRules(s) ==
    Rule13(Rule12(Rule11(Rule10(Rule9(Rule8(Rule7(Rule6(Rule5(
        Rule4(Rule3(Rule2(Rule1(s)))))))))))))

(***************************************************************************)
(* processLines: split('\n'), trim each line, drop the empty ones, join('')*)
(***************************************************************************)
\* content.split('\n'): the lines between the line feeds (one more than
\* there are line feeds)
RECURSIVE SplitLines(_, _, _)
SplitLines(s, i, cur) ==
    IF i > Len(s) THEN <<cur>>
    ELSE IF s[i] = "\n" THEN <<cur>> \o SplitLines(s, i + 1, << >>)
    ELSE SplitLines(s, i + 1, Append(cur, s[i]))

\* line.trim()
RECURSIVE TrimRight(_)
TrimRight(s) ==
    IF Len(s) > 0 /\ s[Len(s)] \in WS THEN TrimRight(SubSeq(s, 1, Len(s) - 1))
    ELSE s

trim(s) == TrimRight(From(s, SkipWs(s, 1)))

\* .filter(line => line.length > 0).join('')
RECURSIVE JoinNonEmpty(_)
JoinNonEmpty(lines) ==
    IF lines = << >> THEN << >>
    ELSE LET l == trim(Head(lines))
         IN  (IF Len(l) > 0 THEN l ELSE << >>) \o JoinNonEmpty(Tail(lines))

processLines(s) == JoinNonEmpty(SplitLines(s, 1, << >>))

\* advancedCompress
advancedCompress(s) == processLines(applyRules(s))


(***************************************************************************)
(* calculateStats computes its ratio in IEEE 754 double precision:         *)
(*   Math.round((1 - compressedSize / originalSize) * 100)                 *)
(* Each of the three operations rounds its exact result to a significand   *)
(* of SignificandBits bits (round to nearest, ties to even).  Such a       *)
(* significand does not fit TLC's integers, so a natural number is a       *)
(* sequence of limbs in base LimbBase, most significant first and without  *)
(* leading zero limbs (<< >> is 0), and a double is [neg, n, e] of value   *)
(* (-1)^neg * n * 2^e with n below 2^SignificandBits, or equal to it.      *)
(* The sizes are character counts, far from the exponent range's ends:     *)
(* no overflow, no subnormal.                                              *)
(***************************************************************************)
SignificandBits == 53

LimbBits == 5 * 3

LimbBase == 2^LimbBits

RECURSIVE NatLimbs(_)
NatLimbs(n) ==
    IF n = 0 THEN << >> ELSE Append(NatLimbs(n \div LimbBase), n % LimbBase)

\* the value of a natural that fits an integer
RECURSIVE LimbsNat(_)
LimbsNat(a) ==
    IF a = << >> THEN 0
    ELSE LimbBase * LimbsNat(SubSeq(a, 1, Len(a) - 1)) + a[Len(a)]

RECURSIVE StripLimbs(_)
StripLimbs(a) ==
    IF a # << >> /\ Head(a) = 0 THEN StripLimbs(Tail(a)) ELSE a

ZeroLimbs(n) == [i \in 1..n |-> 0]

\* a with zero limbs in front, to n limbs
PadTo(a, n) == ZeroLimbs(n - Len(a)) \o a

RECURSIVE BitLenInt(_)
BitLenInt(n) == IF n = 0 THEN 0 ELSE 1 + BitLenInt(n \div 2)

\* the number of bits of a
BitLen(a) ==
    IF a = << >> THEN 0 ELSE LimbBits * (Len(a) - 1) + BitLenInt(a[1])

\* a < b
LessLimbs(a, b) ==
    \/ Len(a) < Len(b)
    \/ /\ Len(a) = Len(b)
       /\ \E i \in 1..Len(a) :
            /\ a[i] < b[i]
            /\ \A j \in 1..(i - 1) : a[j] = b[j]

\* a + b + carry, for naturals of the same number of limbs (one limb more)
RECURSIVE AddSame(_, _, _)
AddSame(a, b, carry) ==
    IF a = << >> THEN <<carry>>
    ELSE LET n == Len(a)
             t == a[n] + b[n] + carry
         IN  Append(AddSame(SubSeq(a, 1, n - 1), SubSeq(b, 1, n - 1),
                            t \div LimbBase),
                    t % LimbBase)

\* a - b - borrow, for naturals of the same number of limbs with a >= b
RECURSIVE SubSame(_, _, _)
SubSame(a, b, borrow) ==
    IF a = << >> THEN << >>
    ELSE LET n == Len(a)
             t == a[n] - b[n] - borrow
         IN  Append(SubSame(SubSeq(a, 1, n - 1), SubSeq(b, 1, n - 1),
                            IF t < 0 THEN 1 ELSE 0),
                    IF t < 0 THEN t + LimbBase ELSE t)

MaxOf(x, y) == IF x >= y THEN x ELSE y

AddLimbs(a, b) ==
    LET n == MaxOf(Len(a), Len(b))
    IN  StripLimbs(AddSame(PadTo(a, n), PadTo(b, n), 0))

\* a - b, for a >= b
SubLimbs(a, b) ==
    LET n == MaxOf(Len(a), Len(b))
    IN  StripLimbs(SubSame(PadTo(a, n), PadTo(b, n), 0))

\* a * f + carry, for a factor f of at most LimbBase
RECURSIVE MulSmallCarry(_, _, _)
MulSmallCarry(a, f, carry) ==
    IF a = << >> THEN NatLimbs(carry)
    ELSE LET n == Len(a)
             t == a[n] * f + carry
         IN  Append(MulSmallCarry(SubSeq(a, 1, n - 1), f, t \div LimbBase),
                    t % LimbBase)

MulSmall(a, f) == StripLimbs(MulSmallCarry(a, f, 0))

\* the quotient and the remainder of a by the divisor den <= LimbBase: long
\* division, from limb i on with the remainder r so far
RECURSIVE DivSmallFrom(_, _, _, _)
DivSmallFrom(a, i, den, r) ==
    IF i > Len(a) THEN [q |-> << >>, r |-> r]
    ELSE LET t == r * LimbBase + a[i]
             rest == DivSmallFrom(a, i + 1, den, t % den)
         IN  [q |-> <<t \div den>> \o rest.q, r |-> rest.r]

DivSmall(a, den) ==
    LET d == DivSmallFrom(a, 1, den, 0)
    IN  [q |-> StripLimbs(d.q), r |-> d.r]

\* a * 2^k
ShiftLeft(a, k) ==
    IF a = << >> THEN a
    ELSE MulSmall(a, 2^(k % LimbBits)) \o ZeroLimbs(k \div LimbBits)

\* a \div 2^k, and whether bits were lost
ShiftRight(a, k) ==
    LET whole == k \div LimbBits
    IN  IF whole >= Len(a) THEN [q |-> << >>, lost |-> a # << >>]
        ELSE LET d == DivSmall(SubSeq(a, 1, Len(a) - whole), 2^(k % LimbBits))
             IN  [q |-> d.q,
                  lost |-> \/ d.r # 0
                           \/ \E i \in (Len(a) - whole + 1)..Len(a) : a[i] # 0]

IsOdd(a) == a # << >> /\ a[Len(a)] % 2 = 1

DoubleZero == [neg |-> FALSE, n |-> << >>, e |-> 0]

\* the double nearest to (-1)^neg * (a + x) * 2^e, ties to even, where a # 0
\* and 0 <= x < 1, with x > 0 exactly if sticky
RoundToDouble(neg, a, e, sticky) ==
    LET d == BitLen(a) - SignificandBits
    IN  IF d <= 0 THEN [neg |-> neg, n |-> a, e |-> e]
        ELSE LET sh == ShiftRight(a, d - 1)
                 keep == ShiftRight(sh.q, 1).q
                 up == IsOdd(sh.q) /\ (sticky \/ sh.lost \/ IsOdd(keep))
             IN  [neg |-> neg,
                  n |-> IF up THEN AddLimbs(keep, <<1>>) ELSE keep,
                  e |-> e + d]

\* the double nearest to c / o, for integers c >= 0 and 0 < o <= LimbBase
DoubleDiv(c, o) ==
    IF c = 0 THEN DoubleZero
    ELSE LET k == SignificandBits + 2 + BitLenInt(o)
             d == DivSmall(ShiftLeft(NatLimbs(c), k), o)
         IN  RoundToDouble(FALSE, d.q, -k, d.r # 0)

\* the double nearest to 1 - x, for a double x >= 0 with x.e <= 0
OneMinus(x) ==
    LET one == ShiftLeft(<<1>>, -x.e)
    IN  IF x.n = one THEN DoubleZero
        ELSE IF LessLimbs(one, x.n)
             THEN RoundToDouble(TRUE, SubLimbs(x.n, one), x.e, FALSE)
             ELSE RoundToDouble(FALSE, SubLimbs(one, x.n), x.e, FALSE)

\* the double nearest to x * 100
TimesHundred(x) ==
    IF x.n = << >> THEN x
    ELSE RoundToDouble(x.neg, MulSmall(x.n, 100), x.e, FALSE)

\* Math.round: the integer nearest to the double x, a tie going to the one
\* closer to plus infinity.  The result is exact.
MathRound(x) ==
    IF x.n = << >> THEN 0
    ELSE IF x.e >= 0
         THEN (IF x.neg THEN -1 ELSE 1) * LimbsNat(ShiftLeft(x.n, x.e))
         ELSE LET sh == ShiftRight(x.n, -x.e - 1)  \* twice the integer part, plus the half
                  whole == LimbsNat(ShiftRight(sh.q, 1).q)
                  half == IsOdd(sh.q)
              IN  IF x.neg
                  THEN -(whole + (IF half /\ sh.lost THEN 1 ELSE 0))
                  ELSE whole + (IF half THEN 1 ELSE 0)

\* calculateStats
calculateStats(originalSize, compressedSize) ==
    [originalSize |-> originalSize,
     compressedSize |-> compressedSize,
     ratio |-> IF originalSize > 0
               THEN MathRound(TimesHundred(OneMinus(
                        DoubleDiv(compressedSize, originalSize))))
               ELSE 0]


(***************************************************************************)
(* removeCommentsWithAST: createSourceFile parses the text with the        *)
(* TypeScript grammar and the printer writes the tree back with            *)
(* removeComments.  The model follows the scanner: a comment is dropped, a *)
(* string literal is carried over as it stands (comment syntax inside it   *)
(* is text), everything else is copied.  The printer's own layout of the  *)
(* remaining tokens is not modelled: the texts given to it are in that     *)
(* layout already.                                                         *)
(***************************************************************************)
\* the quotes that open a string literal (a template literal is scanned the
\* same way; its quote is no character of the model's texts)
Quotes == {"\"", "'"}

\* the index behind the literal that opens at i with the quote s[i]: behind
\* its closing quote, or behind the text when it is not closed
RECURSIVE LiteralEnd(_, _, _)
LiteralEnd(s, q, j) ==
    IF j > Len(s) THEN j
    ELSE IF s[j] = "\\" THEN LiteralEnd(s, q, j + 2)
    ELSE IF s[j] = q THEN j + 1
    ELSE LiteralEnd(s, q, j + 1)

\* the index of the line terminator that ends the // comment, or behind the text
RECURSIVE LineCommentEnd(_, _)
LineCommentEnd(s, j) ==
    IF j > Len(s) \/ s[j] \in LineTerm THEN j ELSE LineCommentEnd(s, j + 1)

\* the index behind the */ that closes the /* comment, or behind the text
RECURSIVE BlockCommentEnd(_, _)
BlockCommentEnd(s, j) ==
    IF j > Len(s) THEN j
    ELSE IF MatchAt(s, j, <<"*", "/">>) THEN j + 2
    ELSE BlockCommentEnd(s, j + 1)

\* the index behind the token or comment that starts at i (s[i] no whitespace)
TokenEnd(s, i) ==
    IF MatchAt(s, i, <<"/", "/">>) THEN LineCommentEnd(s, i + 2)
    ELSE IF MatchAt(s, i, <<"/", "*">>) THEN BlockCommentEnd(s, i + 2)
    ELSE IF s[i] \in Quotes THEN LiteralEnd(s, s[i], i + 1)
    ELSE IF s[i] \in WordChar THEN SkipWord(s, i)
    ELSE i + 1

IsCommentAt(s, i) ==
    MatchAt(s, i, <<"/", "/">>) \/ MatchAt(s, i, <<"/", "*">>)

RECURSIVE StripFrom(_, _)
StripFrom(s, i) ==
    IF i > Len(s) THEN << >>
    ELSE IF IsCommentAt(s, i) THEN StripFrom(s, TokenEnd(s, i))
    ELSE IF s[i] \in Quotes
         THEN LET e == TokenEnd(s, i)
              IN  SubSeq(s, i, MaxOf(i, (IF e > Len(s) THEN Len(s) ELSE e - 1)))
                    \o StripFrom(s, e)
    ELSE <<s[i]>> \o StripFrom(s, i + 1)

\* removeCommentsWithAST
removeCommentsWithAST(s) == StripFrom(s, 1)

\* pipe(f, g) of utils.ts applied by createCompressionPipeline to
\* (removeCommentsWithAST, advancedCompress): g(f(a))
defaultCompressionPipeline(s) == advancedCompress(removeCommentsWithAST(s))

\* the tokens of a text in order, the comments among them or not
RECURSIVE TokensFrom(_, _, _)
TokensFrom(s, i, comments) ==
    IF i > Len(s) THEN << >>
    ELSE IF s[i] \in WS THEN TokensFrom(s, i + 1, comments)
    ELSE LET e == TokenEnd(s, i)
             tok == SubSeq(s, i, (IF e > Len(s) THEN Len(s) ELSE e - 1))
         IN  IF IsCommentAt(s, i) /\ ~comments THEN TokensFrom(s, e, comments)
             ELSE <<tok>> \o TokensFrom(s, e, comments)

NonCommentTokens(s) == TokensFrom(s, 1, FALSE)

AllTokens(s) == TokensFrom(s, 1, TRUE)


(***************************************************************************)
(* Paths and the per-file output (compressor.ts, utils.ts).                *)
(***************************************************************************)
None == "none"

\* path.relative(baseDir, filePath) for a file below baseDir: the path
\* behind the directory and its separator
relative(baseDir, filePath) == From(filePath, Len(baseDir) + 2)

\* getRelativePath: relative(baseDir, filePath).replace(/\\/g, '/')
getRelativePath(filePath, baseDir) ==
    LET rel == relative(baseDir, filePath)
    IN  [i \in 1..Len(rel) |-> IF rel[i] = "\\" THEN "/" ELSE rel[i]]

\* the block tag's parts: '/*=== ', ' ===*/'
BlockTagOpen == <<"/", "*", "=", "=", "=", " ">>
BlockTagClose == <<" ", "=", "=", "=", "*", "/">>

\* formatFileOutput without the line feed in front of the block tag
formatFileOutputNoLeadingLineFeed(file, baseDir, preserveStructure) ==
    LET relativePath == getRelativePath(file.path, baseDir)
    IN  IF preserveStructure
        THEN BlockTagOpen \o relativePath \o BlockTagClose \o <<"\n">>
               \o file.compressedContent \o <<"\n">>
        ELSE <<"/", "*">> \o relativePath \o <<"*", "/">> \o file.compressedContent

\* formatFileOutput
formatFileOutput(file, baseDir, preserveStructure) ==
    LET relativePath == getRelativePath(file.path, baseDir)
    IN  IF preserveStructure
        THEN <<"\n">> \o BlockTagOpen \o relativePath \o BlockTagClose \o <<"\n">>
               \o file.compressedContent \o <<"\n">>
        ELSE <<"/", "*">> \o relativePath \o <<"*", "/">> \o file.compressedContent

\* Array.prototype.join
RECURSIVE Join(_, _)
Join(parts, sep) ==
    IF parts = << >> THEN << >>
    ELSE IF Len(parts) = 1 THEN parts[1]
    ELSE parts[1] \o sep \o Join(Tail(parts), sep)

\* generateOutput
generateOutput(files, baseDir, preserveStructure) ==
    Join([i \in 1..Len(files) |->
             formatFileOutput(files[i], baseDir, preserveStructure)],
         IF preserveStructure THEN <<"\n">> ELSE << >>)

\* aggregateStats
RECURSIVE aggregateStats(_)
aggregateStats(files) ==
    IF files = << >> THEN [totalOriginalSize |-> 0, totalCompressedSize |-> 0]
    ELSE LET acc == aggregateStats(SubSeq(files, 1, Len(files) - 1))
             file == files[Len(files)]
         IN  [totalOriginalSize |-> acc.totalOriginalSize + file.stats.originalSize,
              totalCompressedSize |->
                  acc.totalCompressedSize + file.stats.compressedSize]

\* processFile behind its read: the ProcessedFile of a path and its content
ProcessedFile(filePath, originalContent) ==
    LET compressedContent == defaultCompressionPipeline(originalContent)
    IN  [path |-> filePath,
         originalContent |-> originalContent,
         compressedContent |-> compressedContent,
         stats |-> calculateStats(Len(originalContent), Len(compressedContent))]

\* the entry compressSelectedFiles makes of a file it has read
SelectedEntry(file, content) ==
    [path |-> file,
     original |-> content,
     compressed |-> defaultCompressionPipeline(content)]

\* the output compressSelectedFiles builds of its entries
SelectedOutput(results, baseDir, preserveStructure) ==
    Join([i \in 1..Len(results) |->
             LET relativePath == getRelativePath(results[i].path, baseDir)
             IN  IF preserveStructure
                 THEN <<"\n">> \o BlockTagOpen \o relativePath \o BlockTagClose
                        \o <<"\n">> \o results[i].compressed \o <<"\n">>
                 ELSE <<"/", "*">> \o relativePath \o <<"*", "/">>
                        \o results[i].compressed],
         IF preserveStructure THEN <<"\n">> ELSE << >>)

\* results.reduce((sum, r) => sum + r.original.length, 0)
RECURSIVE SumOriginal(_)
SumOriginal(results) ==
    IF results = << >> THEN 0
    ELSE SumOriginal(SubSeq(results, 1, Len(results) - 1))
           + Len(results[Len(results)].original)

(***************************************************************************)
(* The file filter (utils.ts): the patterns of --include and --exclude     *)
(* become regular expressions, which are tested against the entry's name.  *)
(***************************************************************************)
\* pattern.replace(/\*/g, '.*')
RECURSIVE ReplaceStars(_)
ReplaceStars(pattern) ==
    IF pattern = << >> THEN << >>
    ELSE (IF Head(pattern) = "*" THEN <<".", "*">> ELSE <<Head(pattern)>>)
           \o ReplaceStars(Tail(pattern))

\* new RegExp(source): the atoms of the expression, a character or the
\* dot, each with the star that may follow it
RECURSIVE RegExp(_)
RegExp(source) ==
    IF source = << >> THEN << >>
    ELSE LET star == Len(source) >= 2 /\ source[2] = "*"
         IN  <<[ch |-> source[1], star |-> star]>>
               \o RegExp(SubSeq(source, IF star THEN 3 ELSE 2, Len(source)))

patternToRegex(pattern) == RegExp(ReplaceStars(pattern))

\* an atom against one character: the dot takes all but line terminators
AtomMatches(atom, c) ==
    IF atom.ch = "." THEN c \notin LineTerm ELSE c = atom.ch

\* the atoms from the k-th on match s from position i on
RECURSIVE MatchesAt(_, _, _, _)
MatchesAt(regex, k, s, i) ==
    IF k > Len(regex) THEN TRUE
    ELSE IF regex[k].star
    THEN \E n \in 0..(Len(s) - i + 1) :
             /\ \A j \in i..(i + n - 1) : AtomMatches(regex[k], s[j])
             /\ MatchesAt(regex, k + 1, s, i + n)
    ELSE /\ i <= Len(s)
         /\ AtomMatches(regex[k], s[i])
         /\ MatchesAt(regex, k + 1, s, i + 1)

\* regex.test(s): the expression has no anchor, it matches anywhere in s
test(regex, s) == \E i \in 1..(Len(s) + 1) : MatchesAt(regex, 1, s, i)

\* String.prototype.endsWith
endsWith(s, suffix) ==
    /\ Len(s) >= Len(suffix)
    /\ SubSeq(s, Len(s) - Len(suffix) + 1, Len(s)) = suffix

\* the filter createFileFilter returns, applied to fileName
createFileFilter(includePatterns, excludePatterns, fileName) ==
    IF ~endsWith(fileName, <<".", "t", "s">>) THEN FALSE
    ELSE IF \E k \in 1..Len(excludePatterns) :
                test(patternToRegex(excludePatterns[k]), fileName)
    THEN FALSE
    ELSE \E k \in 1..Len(includePatterns) :
             test(patternToRegex(includePatterns[k]), fileName)

\* --include's default: *.ts
DefaultInclude == << <<"*", ".", "t", "s">> >>

\* --exclude's default: *.d.ts, *.test.ts, *.spec.ts
DefaultExclude ==
    << <<"*", ".", "d", ".", "t", "s">>,
       <<"*", ".", "t", "e", "s", "t", ".", "t", "s">>,
       <<"*", ".", "s", "p", "e", "c", ".", "t", "s">> >>

(***************************************************************************)
(* The file system the runs read: MaxFiles TypeScript files below the      *)
(* target directory.  File discovery (getTypeScriptFiles) returns any of   *)
(* them, sorted.                                                           *)
(***************************************************************************)
MaxFiles == 3

\* /d
TargetDir == <<"/", "d">>

FileLetters == <<"a", "b", "c", "d", "e", "f", "g", "h">>

\* /d/a.ts, /d/b.ts, ...
FilePath(i) == TargetDir \o <<"/", FileLetters[i], ".", "t", "s">>

\* what the files hold, by turns: a comment and a statement, a statement
\* with a string literal, nothing
FileTexts ==
    << <<"/","/"," ","c","\n","x"," ","="," ","1",";","\n">>,
       <<"s"," ","="," ","\"","a"," ",":"," ","b","\"",";","\n">>,
       << >> >>

FileIndex(path) == CHOOSE i \in 1..MaxFiles : FilePath(i) = path

\* readFile(path, 'utf-8') when it succeeds
FileContent(path) == FileTexts[((FileIndex(path) - 1) % Len(FileTexts)) + 1]

\* the errors readFile rejects with, one per file of the file system
FsErrors ==
    <<"ENOENT: a.ts", "EACCES: b.ts", "ENOENT: c.ts", "EACCES: d.ts",
      "ENOENT: e.ts", "EACCES: f.ts", "ENOENT: g.ts", "EACCES: h.ts">>

\* readFile(path, 'utf-8') when it fails
FsError(path) == FsErrors[FileIndex(path)]

\* the elements of a set of integers in ascending order
RECURSIVE Ascending(_)
Ascending(S) ==
    IF S = {} THEN << >>
    ELSE LET m == CHOOSE x \in S : \A y \in S : x <= y
         IN  <<m>> \o Ascending(S \ {m})

\* the lists getTypeScriptFiles can return: results.flat().sort()
DiscoveredLists ==
    { [i \in 1..Len(Ascending(S)) |-> FilePath(Ascending(S)[i])] :
        S \in SUBSET (1..MaxFiles) }

\* the sequences without repetition over a set: a Set's insertion orders
RECURSIVE Orders(_)
Orders(S) ==
    IF S = {} THEN {<< >>}
    ELSE UNION { {Append(o, x) : o \in Orders(S \ {x})} : x \in S }

SelectionStates == UNION {Orders(S) : S \in SUBSET (0..(MaxFiles - 1))}

(***************************************************************************)
(* A batch run.  compressTypeScriptFiles and compressSelectedFiles issue   *)
(* every read at once (files.map(...) starts them all) and await them      *)
(* with Promise.all, which fills its result array by position and rejects  *)
(* with the first read that fails.                                         *)
(***************************************************************************)
\* Array.from(selectedIndices) alone: the Set's insertion order
InsertionOrder(seq) == seq

\* Array.from(selectedIndices).sort((a, b) => a - b)
RECURSIVE SortNumeric(_)
SortNumeric(seq) ==
    IF seq = << >> THEN << >>
    ELSE LET m == CHOOSE i \in 1..Len(seq) : \A j \in 1..Len(seq) : seq[i] <= seq[j]
         IN  <<seq[m]>> \o
             SortNumeric([k \in 1..(Len(seq) - 1) |->
                             IF k < m THEN seq[k] ELSE seq[k + 1]])

\* selectedFiles: .map(i => files[i]!).filter(Boolean), the indices 0-based
selectedFiles(files, selectedIndices) ==
    LET sorted == SortNumeric(selectedIndices)
        inRange == SelectSeq(sorted, LAMBDA i : i + 1 <= Len(files))
    IN  [k \in 1..Len(inRange) |-> files[inRange[k] + 1]]

\* the guard that lets every list through
NoFilesNever(files) == FALSE

\* files.length === 0 (selectedFiles.length === 0)
NoFiles(files) == Len(files) = 0

\* an array filled in completion order: each result goes to the first free place
StoreInArrivalOrder(slots, i, value) ==
    LET free == CHOOSE k \in 1..Len(slots) :
                    slots[k] = << >> /\ \A j \in 1..(k - 1) : slots[j] # << >>
    IN  [slots EXCEPT ![free] = <<value>>]

\* Promise.all: the result of the i-th promise is the i-th element
StoreResult(slots, i, value) == [slots EXCEPT ![i] = <<value>>]

\* the array Promise.all resolves with once every element is there
Resolved(slots) == [i \in 1..Len(slots) |-> slots[i][1]]

\* the sum of the files' compressed sizes
SumOfCompressedSizes(processedFiles, output) ==
    aggregateStats(processedFiles).totalCompressedSize

\* const totalCompressedSize = output.length
totalCompressedSize(processedFiles, output) == Len(output)

\* what compressTypeScriptFiles returns of the processed files
CompressResult(processedFiles, baseDir, preserveStructure) ==
    LET output == generateOutput(processedFiles, baseDir, preserveStructure)
    IN  [files |-> processedFiles,
         totalStats |-> calculateStats(
             aggregateStats(processedFiles).totalOriginalSize,
             totalCompressedSize(processedFiles, output)),
         output |-> output]

\* what compressSelectedFiles returns of its entries
SelectedResult(results, baseDir, preserveStructure) ==
    LET output == SelectedOutput(results, baseDir, preserveStructure)
    IN  [output |-> output,
         stats |-> calculateStats(SumOriginal(results), Len(output)),
         fileCount |-> Len(results)]

BatchIdle ==
    /\ bPc = "idle" /\ bEntry = None /\ bFiles = << >> /\ bSelection = << >>
    /\ bPreserve = FALSE /\ bTargets = << >> /\ bIssued = {} /\ bPending = {}
    /\ bSlots = << >> /\ bOrder = << >> /\ bResult = None /\ bError = None
    /\ bReads = << >> /\ bRejected = << >>

(***************************************************************************)
(* The menu's input (interactive.ts): parseChoice and toggleSelection.     *)
(***************************************************************************)
\* a JavaScript number that parseInt returns: NaN, or an integer
NaN == [isNaN |-> TRUE, value |-> 0]

Number(v) == [isNaN |-> FALSE, value |-> v]

\* String.prototype.toLowerCase over the letters
LowerOf(c) ==
    IF c \in Upper
    THEN LET k == CHOOSE j \in 1..26 :
                      <<"A","B","C","D","E","F","G","H","I","J","K","L","M",
                        "N","O","P","Q","R","S","T","U","V","W","X","Y","Z">>[j] = c
         IN  <<"a","b","c","d","e","f","g","h","i","j","k","l","m",
               "n","o","p","q","r","s","t","u","v","w","x","y","z">>[k]
    ELSE c

toLowerCase(s) == [i \in 1..Len(s) |-> LowerOf(s[i])]

DigitValue(c) ==
    CHOOSE v \in 0..9 : <<"0","1","2","3","4","5","6","7","8","9">>[v + 1] = c

\* the first index >= i that holds no digit
RECURSIVE SkipDigits(_, _)
SkipDigits(s, i) ==
    IF i <= Len(s) /\ s[i] \in Digit THEN SkipDigits(s, i + 1) ELSE i

\* the value of the digits s[lo..hi]
RECURSIVE DigitsValue(_, _, _)
DigitsValue(s, lo, hi) ==
    IF hi < lo THEN 0
    ELSE DigitsValue(s, lo, hi - 1) * 10 + DigitValue(s[hi])

\* parseInt(s): white space and a sign are skipped, the digits that follow
\* are read, whatever stands behind them is ignored; NaN without a digit
parseInt(s) ==
    LET start == SkipWs(s, 1)
        signed == start <= Len(s) /\ s[start] \in {"+", "-"}
        first == IF signed THEN start + 1 ELSE start
        end == SkipDigits(s, first)
    IN  IF end = first THEN NaN
        ELSE IF signed /\ s[start] = "-"
             THEN Number(0 - DigitsValue(s, first, end - 1))
        ELSE Number(DigitsValue(s, first, end - 1))

\* the first index >= i that holds neither a comma nor white space
RECURSIVE SkipSeparators(_, _)
SkipSeparators(s, i) ==
    IF i <= Len(s) /\ s[i] \in (WS \cup {","}) THEN SkipSeparators(s, i + 1) ELSE i

\* choice.split(/[,\s]+/) from index i on, cur the piece being read
RECURSIVE SplitChoice(_, _, _)
SplitChoice(s, i, cur) ==
    IF i > Len(s) THEN <<cur>>
    ELSE IF s[i] \in (WS \cup {","})
         THEN <<cur>> \o SplitChoice(s, SkipSeparators(s, i), << >>)
    ELSE SplitChoice(s, i + 1, Append(cur, s[i]))

\* .map(s => parseInt(s.trim()) - 1).filter(n => !isNaN(n) && n >= 0 && n < fileCount)
RECURSIVE ValidIndices(_, _)
ValidIndices(pieces, fileCount) ==
    IF pieces = << >> THEN << >>
    ELSE LET n == parseInt(trim(Head(pieces)))
         IN  (IF ~n.isNaN /\ n.value - 1 >= 0 /\ n.value - 1 < fileCount
              THEN <<n.value - 1>> ELSE << >>)
               \o ValidIndices(Tail(pieces), fileCount)

\* parseChoice: a menu choice, a list of indices (type "indices") or null
parseChoice(choice, fileCount, isMultiSelectMode, hasSelection) ==
    LET lowerChoice == trim(toLowerCase(choice))
    IN  IF lowerChoice = <<"q">> THEN [type |-> "quit"]
        ELSE IF lowerChoice = <<"a">> THEN [type |-> "all"]
        ELSE IF lowerChoice = <<"m">> /\ ~isMultiSelectMode THEN [type |-> "multi"]
        ELSE IF lowerChoice = <<"c">> /\ hasSelection
             THEN [type |-> "compress-selected"]
        ELSE IF lowerChoice = <<"x">> /\ hasSelection THEN [type |-> "clear"]
        ELSE IF isMultiSelectMode
             THEN LET indices == ValidIndices(SplitChoice(choice, 1, << >>), fileCount)
                  IN  IF Len(indices) > 0
                      THEN [type |-> "indices", indices |-> indices]
                      ELSE [type |-> "null"]
        ELSE LET n == parseInt(choice)
             IN  IF ~n.isNaN /\ n.value - 1 >= 0 /\ n.value - 1 < fileCount
                 THEN [type |-> "file", index |-> n.value - 1]
                 ELSE [type |-> "null"]

\* a Set without one of its elements, the insertion order of the others kept
Without(selection, index) == SelectSeq(selection, LAMBDA x : x # index)

Has(selection, index) == \E k \in 1..Len(selection) : selection[k] = index

\* toggleSelection
RECURSIVE toggleSelection(_, _)
toggleSelection(currentSelection, indices) ==
    IF indices = << >> THEN currentSelection
    ELSE toggleSelection(
             IF Has(currentSelection, Head(indices))
             THEN Without(currentSelection, Head(indices))
             ELSE Append(currentSelection, Head(indices)),
             Tail(indices))

\* processSingleFile behind its read: the tagged text and its statistics
SingleFileResult(filePath, baseDir, originalContent) ==
    LET compressedContent == defaultCompressionPipeline(originalContent)
        relativePath == getRelativePath(filePath, baseDir)
        output == <<"/", "*">> \o relativePath \o <<"*", "/">> \o compressedContent
    IN  [content |-> output,
         stats |-> calculateStats(Len(originalContent), Len(output))]

(***************************************************************************)
(* The pure functions, each under a specification of its own that draws    *)
(* the arguments from a bounded set and applies the function.              *)
(***************************************************************************)
OutIdle ==
    /\ oPc = "idle" /\ oCaller = None /\ oOutputFile = None /\ oFiles = << >>
    /\ oPending = {} /\ oCompleted = {} /\ oResult = << >>
    /\ oClipWrites = 0 /\ oFileWrites = 0 /\ oSinkText = << >>
    /\ oExitCode = << >> /\ oReturned = << >> /\ oError = None

FilterIdle == fPc = "idle" /\ fName = << >> /\ fAccepted = FALSE

CliIdle ==
    /\ cPc = "idle" /\ cDirExists = FALSE /\ cInteractive = FALSE
    /\ cOutputFile = None /\ cPreserve = FALSE /\ cFiles = << >>
    /\ cSelection = << >> /\ cMulti = FALSE /\ cRlOpen = FALSE /\ cExit = 0
    /\ cRlCloses = 0
    /\ cError = None /\ cMessage = None /\ cClipWrites = 0 /\ cClipText = << >>
    /\ cFileWrites = 0 /\ cFileText = << >>

StatsIdle == sPc = "idle" /\ sOrig = 0 /\ sComp = 0 /\ sStats = None
NormIdle == nPc = "idle" /\ nInput = << >> /\ nOnce = << >> /\ nTwice = << >>
PipeIdle == pPc = "idle" /\ pInput = << >> /\ pStripped = << >> /\ pOutput = << >>

\* the largest size calculateStats is given
MaxSize == 48

StatsInit ==
    /\ sPc = "input"
    /\ sOrig \in 0..MaxSize
    /\ sComp \in 0..MaxSize
    /\ sStats = None
    /\ NormIdle /\ PipeIdle /\ BatchIdle /\ CliIdle /\ FilterIdle /\ OutIdle

StatsCompute ==
    /\ sPc = "input"
    /\ sStats' = calculateStats(sOrig, sComp)
    /\ sPc' = "done"
    /\ UNCHANGED <<sOrig, sComp, normVars, pipeVars, batchVars, cliVars, filterVars, outVars>>

SpecStats == StatsInit /\ [][StatsCompute]_vars

\* the texts the normalizer is given: up to MaxTokens tokens with a
\* separator between each two, and the texts of the documented scenarios
MaxTokens == 3

NormTokens ==
    {<<"e","x">>, <<"p","o","r","t">>, Keyword.export, Keyword.type, <<"A">>, <<"=">>}

NormSeps == {<<" ">>, <<" ", " ">>, <<"\n">>}

RECURSIVE NormTexts(_)
NormTexts(n) ==
    IF n <= 1 THEN NormTokens
    ELSE {t \o sep \o tok : t \in NormTexts(n - 1), sep \in NormSeps, tok \in NormTokens}

\* import { foo } from 'bar';
ImportText ==
    <<"i","m","p","o","r","t"," ","{"," ","f","o","o"," ","}"," ",
      "f","r","o","m"," ","'","b","a","r","'",";">>

\* const x = 1; and a line feed
ConstText == <<"c","o","n","s","t"," ","x"," ","="," ","1",";","\n">>

\* two lines with the line ends of Windows: a, carriage return, line feed, b
CrLfText == <<"a", "\r", "\n", "b">>

NormInputs == {ImportText, ConstText, CrLfText} \cup UNION {NormTexts(n) : n \in 1..MaxTokens}

NormInit ==
    /\ nPc = "input"
    /\ nInput \in NormInputs
    /\ nOnce = << >>
    /\ nTwice = << >>
    /\ StatsIdle /\ PipeIdle /\ BatchIdle /\ CliIdle /\ FilterIdle /\ OutIdle

NormApplyOnce ==
    /\ nPc = "input"
    /\ nOnce' = advancedCompress(nInput)
    /\ nPc' = "once"
    /\ UNCHANGED <<nInput, nTwice, statsVars, pipeVars, batchVars, cliVars, filterVars, outVars>>

NormApplyTwice ==
    /\ nPc = "once"
    /\ nTwice' = advancedCompress(nOnce)
    /\ nPc' = "twice"
    /\ UNCHANGED <<nInput, nOnce, statsVars, pipeVars, batchVars, cliVars, filterVars, outVars>>

NormNext == NormApplyOnce \/ NormApplyTwice

SpecNorm == NormInit /\ [][NormNext]_vars

\* the source texts the pipeline is given: up to MaxLines lines of code and
\* comments, each ended by a line feed, as the printer lays statements out
MaxLines == 3

SourceLines ==
    { <<"x"," ","="," ","1",";">>,                                   \* x = 1;
      <<"/","/"," ","c">>,                                           \* // c
      <<"/","*"," ","c"," ","*","/">>,                               \* /* c */
      <<"s"," ","="," ","\"","a"," ",":"," ","b","\"",";">>,         \* s = "a : b";
      <<"s"," ","="," ","\"","/","/","x","\"",";">>,                 \* s = "//x";
      <<"f","(","a",","," ","b",")",";">>,                           \* f(a, b);
      <<"x"," ","="," ","1",";"," ","/","/"," ","c">> }              \* x = 1; // c

RECURSIVE SourceTexts(_)
SourceTexts(n) ==
    IF n = 0 THEN {<< >>}
    ELSE {t \o l \o <<"\n">> : t \in SourceTexts(n - 1), l \in SourceLines}

PipeInputs == UNION {SourceTexts(n) : n \in 0..MaxLines}

PipeInit ==
    /\ pPc = "input"
    /\ pInput \in PipeInputs
    /\ pStripped = << >>
    /\ pOutput = << >>
    /\ StatsIdle /\ NormIdle /\ BatchIdle /\ CliIdle /\ FilterIdle /\ OutIdle

PipeStrip ==
    /\ pPc = "input"
    /\ pStripped' = removeCommentsWithAST(pInput)
    /\ pPc' = "stripped"
    /\ UNCHANGED <<pInput, pOutput, statsVars, normVars, batchVars, cliVars, filterVars, outVars>>

PipeNormalize ==
    /\ pPc = "stripped"
    /\ pOutput' = advancedCompress(pStripped)
    /\ pPc' = "done"
    /\ UNCHANGED <<pInput, pStripped, statsVars, normVars, batchVars, cliVars, filterVars, outVars>>

PipeNext == PipeStrip \/ PipeNormalize

SpecPipe == PipeInit /\ [][PipeNext]_vars

\* the longest of the names made of the characters of NameChars
MaxNameLen == 5

NameChars == {"i", "d", ".", "t", "s"}

\* names a directory may hold besides
KnownNames ==
    { <<"a", "d", "d", ".", "t", "s">>,
      <<"i", "n", "d", "e", "x", ".", "t", "s">>,
      <<"t", "y", "p", "e", "s", ".", "d", ".", "t", "s">>,
      <<"a", ".", "t", "e", "s", "t", ".", "t", "s">>,
      <<"a", ".", "s", "p", "e", "c", ".", "t", "s">>,
      <<"l", "a", "t", "e", "s", "t", ".", "t", "s">>,
      <<"a", ".", "t", "s", "x">>,
      <<"a", ".", "j", "s">> }

\* entry.name of the entries getFilesRecursiveIO meets
FileNames ==
    KnownNames \cup UNION {[1..n -> NameChars] : n \in 1..MaxNameLen}

FilterInit ==
    /\ fPc = "name"
    /\ fName \in FileNames
    /\ fAccepted = FALSE
    /\ StatsIdle /\ NormIdle /\ PipeIdle /\ BatchIdle /\ CliIdle /\ OutIdle

\* getFilesRecursiveIO asks the filter of the defaults about the name
FilterApply ==
    /\ fPc = "name"
    /\ fAccepted' = createFileFilter(DefaultInclude, DefaultExclude, fName)
    /\ fPc' = "done"
    /\ UNCHANGED <<fName, statsVars, normVars, pipeVars, batchVars, cliVars, outVars>>

SpecFilter == FilterInit /\ [][FilterApply]_vars

\* a batch run of either entry over a discovered list; the selection of a
\* selection-based run is any set of indices, in any insertion order
BatchInit ==
    /\ bPc = "start"
    /\ bEntry \in {"batch", "selected"}
    /\ bFiles \in DiscoveredLists
    /\ bSelection \in SelectionStates
    /\ bEntry = "batch" => bSelection = << >>
    /\ bPreserve \in BOOLEAN
    /\ bTargets = << >> /\ bIssued = {} /\ bPending = {}
    /\ bSlots = << >> /\ bOrder = << >> /\ bResult = None /\ bError = None
    /\ bReads = << >> /\ bRejected = << >>
    /\ StatsIdle /\ NormIdle /\ PipeIdle /\ CliIdle /\ FilterIdle /\ OutIdle

\* the run finds nothing to read and throws
BatchReject ==
    /\ bPc = "start"
    /\ LET targets == IF bEntry = "batch" THEN bFiles
                      ELSE selectedFiles(bFiles, bSelection)
       IN  /\ NoFiles(targets)
           /\ bTargets' = targets
    /\ bPc' = "failed"
    /\ bError' = IF bEntry = "batch" THEN "No TypeScript files found"
                 ELSE "No files selected"
    /\ UNCHANGED <<bEntry, bFiles, bSelection, bPreserve, bIssued, bPending,
                   bSlots, bOrder, bResult, bReads, bRejected>>
    /\ UNCHANGED <<statsVars, normVars, pipeVars, cliVars, filterVars, outVars>>

\* files.map(...) starts the read of every file before any is awaited
BatchIssue ==
    /\ bPc = "start"
    /\ LET targets == IF bEntry = "batch" THEN bFiles
                      ELSE selectedFiles(bFiles, bSelection)
       IN  /\ ~NoFiles(targets)
           /\ bTargets' = targets
           /\ bIssued' = 1..Len(targets)
           /\ bPending' = 1..Len(targets)
           /\ bSlots' = [i \in 1..Len(targets) |-> << >>]
           /\ bReads' = targets
    /\ bPc' = "reading"
    /\ UNCHANGED <<bEntry, bFiles, bSelection, bPreserve, bOrder, bResult, bError,
                   bRejected>>
    /\ UNCHANGED <<statsVars, normVars, pipeVars, cliVars, filterVars, outVars>>

\* one read completes, in any order, and its promise resolves; when the
\* run has rejected already, nobody awaits the value
ReadComplete(i) ==
    /\ bPc \in {"reading", "failed"}
    /\ i \in bPending
    /\ LET content == FileContent(bTargets[i])
           value == IF bEntry = "batch" THEN ProcessedFile(bTargets[i], content)
                    ELSE SelectedEntry(bTargets[i], content)
       IN  bSlots' = StoreResult(bSlots, i, value)
    /\ bPending' = bPending \ {i}
    /\ bOrder' = Append(bOrder, i)
    /\ UNCHANGED <<bPc, bEntry, bFiles, bSelection, bPreserve, bTargets, bIssued,
                   bResult, bError, bReads, bRejected>>
    /\ UNCHANGED <<statsVars, normVars, pipeVars, cliVars, filterVars, outVars>>

\* one read fails and a catch wraps its error in one of the run's own
ReadFailWrapped(i) ==
    /\ bPc \in {"reading", "failed"}
    /\ i \in bPending
    /\ bPending' = bPending \ {i}
    /\ bRejected' = Append(bRejected, [index |-> i, error |-> "read failed"])
    /\ bPc' = "failed"
    /\ bError' = IF bPc = "reading" THEN "read failed" ELSE bError
    /\ UNCHANGED <<bEntry, bFiles, bSelection, bPreserve, bTargets, bIssued,
                   bSlots, bOrder, bResult, bReads>>
    /\ UNCHANGED <<statsVars, normVars, pipeVars, cliVars, filterVars, outVars>>

\* one read fails: processFile rejects with the read's error; Promise.all
\* rejects with the first rejection and the run throws it
ReadFail(i) ==
    /\ bPc \in {"reading", "failed"}
    /\ i \in bPending
    /\ bPending' = bPending \ {i}
    /\ bRejected' = Append(bRejected, [index |-> i, error |-> FsError(bTargets[i])])
    /\ bPc' = "failed"
    /\ bError' = IF bPc = "reading" THEN FsError(bTargets[i]) ELSE bError
    /\ UNCHANGED <<bEntry, bFiles, bSelection, bPreserve, bTargets, bIssued,
                   bSlots, bOrder, bResult, bReads>>
    /\ UNCHANGED <<statsVars, normVars, pipeVars, cliVars, filterVars, outVars>>

\* every read has completed: the output and the statistics are built
BatchFinish ==
    /\ bPc = "reading"
    /\ bPending = {}
    /\ bResult' = IF bEntry = "batch"
                  THEN CompressResult(Resolved(bSlots), TargetDir, bPreserve)
                  ELSE SelectedResult(Resolved(bSlots), TargetDir, bPreserve)
    /\ bPc' = "done"
    /\ UNCHANGED <<bEntry, bFiles, bSelection, bPreserve, bTargets, bIssued,
                   bPending, bSlots, bOrder, bError, bReads, bRejected>>
    /\ UNCHANGED <<statsVars, normVars, pipeVars, cliVars, filterVars, outVars>>

BatchNext ==
    \/ BatchReject
    \/ BatchIssue
    \/ \E i \in 1..MaxFiles : ReadComplete(i)
    \/ \E i \in 1..MaxFiles : ReadFail(i)
    \/ BatchFinish

SpecBatch == BatchInit /\ [][BatchNext]_vars

(***************************************************************************)
(* A run of the command line (cli.ts) and of the menu (interactive.ts).    *)
(* The process ends with exit code 0 unless process.exit(1) is called.     *)
(***************************************************************************)
\* how often a run of the menu may write the clipboard
MaxWrites == 2

\* the path --output names
OutPath == "out.txt"

\* how many files the directory of a run of the command line holds at most
MaxCliFiles == 2

\* what getTypeScriptFiles finds there: the first files of the file system
CliLists ==
    { [i \in 1..n |-> FilePath(i)] : n \in 0..MaxCliFiles }

\* what the user types at the menu's prompt
MenuInputs ==
    { <<"q">>, <<"Q">>, <<"a">>, <<"m">>, <<"c">>, <<"x">>,
      <<"1">>, <<"2">>, <<"3">>, <<"9">>, << >>, <<"1", "x">>,
      <<"1", ",", "2">>, <<"2", " ", "1">>, <<"3", ",", ",", "1">>,
      <<"1", ",", "1">>, <<"0">>, <<"-", "1">> }

\* the files of a list, read and processed
ProcessedFiles(files) ==
    [i \in 1..Len(files) |-> ProcessedFile(files[i], FileContent(files[i]))]

\* the entries compressSelectedFiles makes of the files it has read
SelectedEntries(files) ==
    [i \in 1..Len(files) |-> SelectedEntry(files[i], FileContent(files[i]))]

\* copyToClipboard: the clipboard command takes the text, or fails
copyToClipboard(text, ok) ==
    /\ cClipWrites' = IF ok THEN cClipWrites + 1 ELSE cClipWrites
    /\ cClipText' = IF ok THEN text ELSE cClipText

\* handleOutput: the file when an output file is named, the clipboard else
handleOutput(output, outputFile, ok) ==
    IF outputFile # None /\ outputFile # ""
    THEN /\ cFileWrites' = IF ok THEN cFileWrites + 1 ELSE cFileWrites
         /\ cFileText' = IF ok THEN output ELSE cFileText
         /\ UNCHANGED <<cClipWrites, cClipText>>
    ELSE /\ copyToClipboard(output, ok)
         /\ UNCHANGED <<cFileWrites, cFileText>>

\* a catch that prints the error and lets the process end as it would
CliFailWithoutExit(error) ==
    /\ cError' = error
    /\ cMessage' = "Error"
    /\ cExit' = cExit
    /\ cPc' = "exited"

\* cliAction's catch: the error is printed and the process exits with 1
CliFail(error) ==
    /\ cError' = error
    /\ cMessage' = "Error"
    /\ cExit' = 1
    /\ cPc' = "exited"

cliOptions == <<cDirExists, cInteractive, cOutputFile, cPreserve, cFiles>>

cliSinks == <<cClipWrites, cClipText, cFileWrites, cFileText>>

cliMenu == <<cSelection, cMulti>>

CliInit ==
    /\ cPc = "start"
    /\ cDirExists \in BOOLEAN
    /\ cInteractive \in BOOLEAN
    /\ cOutputFile \in {None, OutPath}
    /\ cPreserve \in BOOLEAN
    /\ cFiles \in CliLists
    /\ ~cDirExists => cFiles = << >>
    /\ cSelection = << >> /\ cMulti = FALSE /\ cRlOpen = FALSE /\ cExit = 0
    /\ cRlCloses = 0
    /\ cError = None /\ cMessage = None /\ cClipWrites = 0 /\ cClipText = << >>
    /\ cFileWrites = 0 /\ cFileText = << >>
    /\ StatsIdle /\ NormIdle /\ PipeIdle /\ BatchIdle /\ FilterIdle /\ OutIdle

\* mainProcess: the target directory does not exist
CliMissingDirectory ==
    /\ cPc = "start"
    /\ ~cDirExists
    /\ CliFail("Directory does not exist")
    /\ UNCHANGED <<cliOptions, cliMenu, cliSinks, cRlOpen, cRlCloses>>
    /\ UNCHANGED <<statsVars, normVars, pipeVars, batchVars, filterVars, outVars>>

\* interactiveMode that returns on an empty list before its try block:
\* the interface it created stays open
CliInteractiveNoFilesLeavesOpen ==
    /\ cPc = "start"
    /\ cDirExists /\ cInteractive
    /\ Len(cFiles) = 0
    /\ cMessage' = "No TypeScript files found."
    /\ cRlOpen' = TRUE
    /\ cPc' = "exited"
    /\ UNCHANGED <<cliOptions, cliMenu, cliSinks, cRlCloses, cExit, cError>>
    /\ UNCHANGED <<statsVars, normVars, pipeVars, batchVars, filterVars, outVars>>

\* interactiveMode finds no file: it says so, closes the interface, returns
CliInteractiveNoFiles ==
    /\ cPc = "start"
    /\ cDirExists /\ cInteractive
    /\ Len(cFiles) = 0
    /\ cMessage' = "No TypeScript files found."
    /\ cRlOpen' = FALSE /\ cRlCloses' = cRlCloses + 1
    /\ cPc' = "exited"
    /\ UNCHANGED <<cliOptions, cliMenu, cliSinks, cExit, cError>>
    /\ UNCHANGED <<statsVars, normVars, pipeVars, batchVars, filterVars, outVars>>

\* interactiveMode: getTypeScriptFiles throws; the interface is closed on
\* the way out and the error reaches cliAction
CliInteractiveDiscoveryFails ==
    /\ cPc = "start"
    /\ cDirExists /\ cInteractive
    /\ cRlOpen' = FALSE /\ cRlCloses' = cRlCloses + 1
    /\ CliFail("discovery failed")
    /\ UNCHANGED <<cliOptions, cliMenu, cliSinks>>
    /\ UNCHANGED <<statsVars, normVars, pipeVars, batchVars, filterVars, outVars>>

\* interactiveMode opens the interface and enters menuLoop
CliInteractiveMenu ==
    /\ cPc = "start"
    /\ cDirExists /\ cInteractive
    /\ Len(cFiles) # 0
    /\ cRlOpen' = TRUE /\ UNCHANGED cRlCloses
    /\ cMessage' = "menu"
    /\ cPc' = "menu"
    /\ UNCHANGED <<cliOptions, cliMenu, cliSinks, cExit, cError>>
    /\ UNCHANGED <<statsVars, normVars, pipeVars, batchVars, filterVars, outVars>>

\* normal mode: compressTypeScriptFiles throws, for want of files or
\* because a read fails
CliNormalCompressFails ==
    /\ cPc = "start"
    /\ cDirExists /\ ~cInteractive
    /\ \/ NoFiles(cFiles) /\ CliFail("No TypeScript files found")
       \/ ~NoFiles(cFiles) /\ CliFail("read failed")
    /\ UNCHANGED <<cliOptions, cliMenu, cliSinks, cRlOpen, cRlCloses>>
    /\ UNCHANGED <<statsVars, normVars, pipeVars, batchVars, filterVars, outVars>>

\* normal mode: the files are compressed and handleOutput takes the output
CliNormalOutput ==
    /\ cPc = "start"
    /\ cDirExists /\ ~cInteractive
    /\ ~NoFiles(cFiles)
    /\ \E ok \in BOOLEAN :
         LET result == CompressResult(ProcessedFiles(cFiles), TargetDir, cPreserve)
         IN  /\ handleOutput(result.output, cOutputFile, ok)
             /\ IF ok
                THEN /\ cMessage' = (IF cOutputFile # None THEN "Output written to file"
                                     ELSE "Compressed output copied to clipboard")
                     /\ cPc' = "exited"
                     /\ UNCHANGED <<cExit, cError>>
                ELSE CliFail(IF cOutputFile # None THEN "write failed"
                             ELSE "clipboard failed")
    /\ UNCHANGED <<cliOptions, cliMenu, cRlOpen, cRlCloses>>
    /\ UNCHANGED <<statsVars, normVars, pipeVars, batchVars, filterVars, outVars>>

(***************************************************************************)
(* A compression and its sink.  mainProcess in normal mode awaits          *)
(* compressTypeScriptFiles and hands the output to handleOutput;           *)
(* compressToClipboard awaits compress and hands the output to             *)
(* copyToClipboard, which pipes it to the clipboard command and awaits     *)
(* the command's exit.                                                     *)
(***************************************************************************)
\* the exit codes of the clipboard command
ExitCodes == {0, 1}

OutInit ==
    /\ oPc = "start"
    /\ oCaller \in {"mainProcess", "compressToClipboard"}
    /\ oOutputFile \in {None, OutPath}
    /\ oCaller = "compressToClipboard" => oOutputFile = None
    /\ oFiles \in DiscoveredLists
    /\ oPending = {} /\ oCompleted = {} /\ oResult = << >>
    /\ oClipWrites = 0 /\ oFileWrites = 0 /\ oSinkText = << >>
    /\ oExitCode = << >> /\ oReturned = << >> /\ oError = None
    /\ StatsIdle /\ NormIdle /\ PipeIdle /\ BatchIdle /\ CliIdle /\ FilterIdle

\* compressTypeScriptFiles throws before any read: getTypeScriptFiles
\* fails, or it finds no file
OutReject ==
    /\ oPc = "start"
    /\ \/ oError' = "discovery failed"
       \/ NoFiles(oFiles) /\ oError' = "No TypeScript files found"
    /\ oPc' = "failed"
    /\ UNCHANGED <<oCaller, oOutputFile, oFiles, oPending, oCompleted, oResult,
                   oClipWrites, oFileWrites, oSinkText, oExitCode, oReturned>>
    /\ UNCHANGED <<statsVars, normVars, pipeVars, batchVars, cliVars, filterVars>>

\* files.map(file => processFile(file)()) starts every read
OutIssueReads ==
    /\ oPc = "start"
    /\ ~NoFiles(oFiles)
    /\ oPending' = 1..Len(oFiles)
    /\ oPc' = "reading"
    /\ UNCHANGED <<oCaller, oOutputFile, oFiles, oCompleted, oResult, oClipWrites,
                   oFileWrites, oSinkText, oExitCode, oReturned, oError>>
    /\ UNCHANGED <<statsVars, normVars, pipeVars, batchVars, cliVars, filterVars>>

\* processFile: one file is read and compressed
OutReadComplete(i) ==
    /\ oPc \in {"reading", "failed"}
    /\ i \in oPending
    /\ oPending' = oPending \ {i}
    /\ oCompleted' = oCompleted \cup {i}
    /\ UNCHANGED <<oPc, oCaller, oOutputFile, oFiles, oResult, oClipWrites,
                   oFileWrites, oSinkText, oExitCode, oReturned, oError>>
    /\ UNCHANGED <<statsVars, normVars, pipeVars, batchVars, cliVars, filterVars>>

\* one read fails: Promise.all rejects, the caller throws the error on
OutReadFail(i) ==
    /\ oPc \in {"reading", "failed"}
    /\ i \in oPending
    /\ oPending' = oPending \ {i}
    /\ oError' = IF oPc = "reading" THEN FsError(oFiles[i]) ELSE oError
    /\ oPc' = "failed"
    /\ UNCHANGED <<oCaller, oOutputFile, oFiles, oCompleted, oResult, oClipWrites,
                   oFileWrites, oSinkText, oExitCode, oReturned>>
    /\ UNCHANGED <<statsVars, normVars, pipeVars, batchVars, cliVars, filterVars>>

\* Promise.all has resolved: compressTypeScriptFiles returns its result
OutCompressed ==
    /\ oPc = "reading"
    /\ oPending = {}
    /\ oResult' = <<CompressResult(ProcessedFiles(oFiles), TargetDir, FALSE)>>
    /\ oPc' = "compressed"
    /\ UNCHANGED <<oCaller, oOutputFile, oFiles, oPending, oCompleted, oClipWrites,
                   oFileWrites, oSinkText, oExitCode, oReturned, oError>>
    /\ UNCHANGED <<statsVars, normVars, pipeVars, batchVars, cliVars, filterVars>>

\* handleOutput with an output file: writeFile, which may fail
OutWriteFile ==
    /\ oPc = "compressed"
    /\ oCaller = "mainProcess" /\ oOutputFile # None
    /\ \/ /\ oFileWrites' = oFileWrites + 1
          /\ oSinkText' = oResult[1].output
          /\ oReturned' = <<"Output written to file">>
          /\ oPc' = "returned"
          /\ UNCHANGED oError
       \/ /\ oError' = "write failed"
          /\ oPc' = "failed"
          /\ UNCHANGED <<oFileWrites, oSinkText, oReturned>>
    /\ UNCHANGED <<oCaller, oOutputFile, oFiles, oPending, oCompleted, oResult,
                   oClipWrites, oExitCode>>
    /\ UNCHANGED <<statsVars, normVars, pipeVars, batchVars, cliVars, filterVars>>

\* copyToClipboard that starts the clipboard command at once and pipes the
\* output to it as soon as the reads are under way
OutPipeWhileReading ==
    /\ oPc = "reading"
    /\ oCaller = "compressToClipboard" \/ oOutputFile = None
    /\ oClipWrites' = oClipWrites + 1
    /\ oSinkText' = CompressResult(ProcessedFiles(oFiles), TargetDir, FALSE).output
    /\ oResult' = <<CompressResult(ProcessedFiles(oFiles), TargetDir, FALSE)>>
    /\ oPc' = "piped"
    /\ UNCHANGED <<oError, oCaller, oOutputFile, oFiles, oPending, oCompleted,
                   oFileWrites, oExitCode, oReturned>>
    /\ UNCHANGED <<statsVars, normVars, pipeVars, batchVars, cliVars, filterVars>>

\* copyToClipboard: the command is started and the text is written to its
\* stdin, or the command has no stdin and copyToClipboard throws
OutPipe ==
    /\ oPc = "compressed"
    /\ oCaller = "compressToClipboard" \/ oOutputFile = None
    /\ \/ /\ oClipWrites' = oClipWrites + 1
          /\ oSinkText' = oResult[1].output
          /\ oPc' = "piped"
          /\ UNCHANGED oError
       \/ /\ oError' = "Failed to access clipboard command stdin"
          /\ oPc' = "failed"
          /\ UNCHANGED <<oClipWrites, oSinkText>>
    /\ UNCHANGED <<oCaller, oOutputFile, oFiles, oPending, oCompleted, oResult,
                   oFileWrites, oExitCode, oReturned>>
    /\ UNCHANGED <<statsVars, normVars, pipeVars, batchVars, cliVars, filterVars>>

\* the clipboard command exits: with code 0 the promise resolves and the
\* caller returns, compressToClipboard its result; else it rejects
OutClipExit(code) ==
    /\ oPc = "piped"
    /\ oExitCode' = <<code>>
    /\ IF code = 0
       THEN /\ oReturned' = IF oCaller = "compressToClipboard" THEN oResult
                            ELSE <<"Compressed output copied to clipboard">>
            /\ oPc' = "returned"
            /\ UNCHANGED oError
       ELSE /\ oError' = "Exit code"
            /\ oPc' = "failed"
            /\ UNCHANGED oReturned
    /\ UNCHANGED <<oCaller, oOutputFile, oFiles, oPending, oCompleted, oResult,
                   oClipWrites, oFileWrites, oSinkText>>
    /\ UNCHANGED <<statsVars, normVars, pipeVars, batchVars, cliVars, filterVars>>

OutNext ==
    \/ OutReject
    \/ OutIssueReads
    \/ \E i \in 1..MaxFiles : OutReadComplete(i)
    \/ \E i \in 1..MaxFiles : OutReadFail(i)
    \/ OutCompressed
    \/ OutWriteFile
    \/ OutPipe
    \/ \E code \in ExitCodes : OutClipExit(code)

SpecOutput == OutInit /\ [][OutNext]_vars

\* what menuLoop makes of the user's input
Parsed(choice) == parseChoice(choice, Len(cFiles), cMulti, Len(cSelection) > 0)

\* menuLoop: the input is no choice; the selection and the mode go
\* unchanged into the next call
MenuInvalid(choice) ==
    /\ cPc = "menu"
    /\ Parsed(choice).type = "null"
    /\ cMessage' = "Invalid selection"
    /\ cPc' = "continue"
    /\ UNCHANGED <<cliOptions, cliMenu, cliSinks, cRlOpen, cRlCloses, cExit, cError>>
    /\ UNCHANGED <<statsVars, normVars, pipeVars, batchVars, filterVars, outVars>>

\* menuLoop in multi-select mode: the indices are toggled
MenuToggle(choice) ==
    /\ cPc = "menu"
    /\ Parsed(choice).type = "indices"
    /\ cSelection' = toggleSelection(cSelection, Parsed(choice).indices)
    /\ cMessage' = "Selection updated"
    /\ cPc' = "continue"
    /\ UNCHANGED <<cliOptions, cliSinks, cMulti, cRlOpen, cRlCloses, cExit, cError>>
    /\ UNCHANGED <<statsVars, normVars, pipeVars, batchVars, filterVars, outVars>>

\* menuLoop returns; interactiveMode closes the interface
MenuQuit(choice) ==
    /\ cPc = "menu"
    /\ Parsed(choice).type = "quit"
    /\ cMessage' = "Goodbye!"
    /\ cRlOpen' = FALSE /\ cRlCloses' = cRlCloses + 1
    /\ cPc' = "exited"
    /\ UNCHANGED <<cliOptions, cliMenu, cliSinks, cExit, cError>>
    /\ UNCHANGED <<statsVars, normVars, pipeVars, batchVars, filterVars, outVars>>

\* multi: menuLoop calls itself at once with the mode on
MenuMulti(choice) ==
    /\ cPc = "menu"
    /\ Parsed(choice).type = "multi"
    /\ cMulti' = TRUE
    /\ cMessage' = "menu"
    /\ UNCHANGED <<cliOptions, cliSinks, cSelection, cPc, cRlOpen, cRlCloses, cExit, cError>>
    /\ UNCHANGED <<statsVars, normVars, pipeVars, batchVars, filterVars, outVars>>

\* clear: the next call gets an empty selection and the same mode
MenuClear(choice) ==
    /\ cPc = "menu"
    /\ Parsed(choice).type = "clear"
    /\ cSelection' = << >>
    /\ cMessage' = "Selection cleared"
    /\ cPc' = "continue"
    /\ UNCHANGED <<cliOptions, cliSinks, cMulti, cRlOpen, cRlCloses, cExit, cError>>
    /\ UNCHANGED <<statsVars, normVars, pipeVars, batchVars, filterVars, outVars>>

\* what createErrorMessage prints of the errors a menu entry can meet
MenuErrors ==
    [read |-> "Error: read failed", clipboard |-> "Error: clipboard failed",
     nofiles |-> "Error: No TypeScript files found",
     noselection |-> "Error: No files selected"]

\* the error of a menu entry's try block, None when there is none: the
\* entry has nothing to read, a read fails, or the clipboard command fails
MenuError(nothing, readOk, clipOk) ==
    IF nothing # None THEN nothing
    ELSE IF ~readOk THEN MenuErrors.read
    ELSE IF ~clipOk THEN MenuErrors.clipboard
    ELSE None

\* a try block without its catch: the error leaves menuLoop, interactiveMode
\* closes the interface and cliAction exits with 1
MenuCopyUncaught(text, error, done) ==
    /\ error = None => cClipWrites < MaxWrites
    /\ copyToClipboard(text, error = None)
    /\ UNCHANGED <<cFileWrites, cFileText>>
    /\ IF error = None
       THEN /\ cMessage' = done
            /\ cPc' = "continue"
            /\ UNCHANGED <<cRlOpen, cRlCloses, cExit, cError>>
       ELSE /\ cRlOpen' = FALSE /\ cRlCloses' = cRlCloses + 1
            /\ CliFail(error)

\* the try block of a menu entry and its catch: the text goes to the
\* clipboard, or the error is printed; the continue prompt follows
MenuCopy(text, error, done) ==
    /\ error = None => cClipWrites < MaxWrites
    /\ copyToClipboard(text, error = None)
    /\ cMessage' = IF error = None THEN done ELSE error
    /\ cPc' = "continue"
    /\ UNCHANGED <<cFileWrites, cFileText, cRlOpen, cRlCloses, cExit, cError>>

\* compress-selected that resets the selection and the mode in the try
\* block: they are kept when the read or the clipboard fails
MenuCompressSelectedResetInTry(choice) ==
    /\ cPc = "menu"
    /\ Parsed(choice).type = "compress-selected"
    /\ LET targets == selectedFiles(cFiles, cSelection)
       IN  \E readOk, clipOk \in BOOLEAN :
               /\ MenuCopy(SelectedResult(SelectedEntries(targets), TargetDir,
                                          cPreserve).output,
                           MenuError(None, readOk, clipOk),
                           "Selected files compressed and copied to clipboard")
               /\ cSelection' = IF readOk /\ clipOk THEN << >> ELSE cSelection
               /\ cMulti' = IF readOk /\ clipOk THEN FALSE ELSE cMulti
    /\ UNCHANGED cliOptions
    /\ UNCHANGED <<statsVars, normVars, pipeVars, batchVars, filterVars, outVars>>

\* compress-selected: the next call gets an empty selection and the mode off
MenuCompressSelected(choice) ==
    /\ cPc = "menu"
    /\ Parsed(choice).type = "compress-selected"
    /\ LET targets == selectedFiles(cFiles, cSelection)
       IN  \E readOk, clipOk \in BOOLEAN :
               MenuCopy(IF NoFiles(targets) THEN << >>
                        ELSE SelectedResult(SelectedEntries(targets), TargetDir,
                                            cPreserve).output,
                        MenuError(IF NoFiles(targets) THEN MenuErrors.noselection
                                  ELSE None, readOk, clipOk),
                        "Selected files compressed and copied to clipboard")
    /\ cSelection' = << >>
    /\ cMulti' = FALSE
    /\ UNCHANGED cliOptions
    /\ UNCHANGED <<statsVars, normVars, pipeVars, batchVars, filterVars, outVars>>

\* all: compressAllFiles runs compressTypeScriptFiles, which searches the
\* directory anew; the menu keeps its own list
MenuCompressAll(choice) ==
    /\ cPc = "menu"
    /\ Parsed(choice).type = "all"
    /\ \E found \in CliLists : \E readOk, clipOk \in BOOLEAN :
           MenuCopy(IF NoFiles(found) THEN << >>
                    ELSE CompressResult(ProcessedFiles(found), TargetDir,
                                        cPreserve).output,
                    MenuError(IF NoFiles(found) THEN MenuErrors.nofiles
                              ELSE None, readOk, clipOk),
                    "All files compressed and copied to clipboard")
    /\ UNCHANGED <<cliOptions, cliMenu>>
    /\ UNCHANGED <<statsVars, normVars, pipeVars, batchVars, filterVars, outVars>>

\* file: one file is compressed; in multi-select mode menuLoop calls itself
\* at once and nothing is done
MenuFile(choice) ==
    /\ cPc = "menu"
    /\ Parsed(choice).type = "file"
    /\ IF cMulti
       THEN /\ cMessage' = "menu"
            /\ UNCHANGED <<cliSinks, cPc, cRlOpen, cRlCloses, cExit, cError>>
       ELSE LET filePath == cFiles[Parsed(choice).index + 1]
            IN  \E readOk, clipOk \in BOOLEAN :
                    MenuCopy(SingleFileResult(filePath, TargetDir,
                                              FileContent(filePath)).content,
                             MenuError(None, readOk, clipOk),
                             "compressed and copied to clipboard")
    /\ UNCHANGED <<cliOptions, cliMenu>>
    /\ UNCHANGED <<statsVars, normVars, pipeVars, batchVars, filterVars, outVars>>

\* promptContinue: the user presses Enter; menuLoop calls itself, clears
\* the screen and shows the menu
MenuContinue ==
    /\ cPc = "continue"
    /\ cPc' = "menu"
    /\ cMessage' = "menu"
    /\ UNCHANGED <<cliOptions, cliMenu, cliSinks, cRlOpen, cRlCloses, cExit, cError>>
    /\ UNCHANGED <<statsVars, normVars, pipeVars, batchVars, filterVars, outVars>>

CliNext ==
    \/ CliMissingDirectory
    \/ CliInteractiveNoFiles
    \/ CliInteractiveDiscoveryFails
    \/ CliInteractiveMenu
    \/ CliNormalCompressFails
    \/ CliNormalOutput
    \/ \E choice \in MenuInputs : MenuInvalid(choice)
    \/ \E choice \in MenuInputs : MenuToggle(choice)
    \/ \E choice \in MenuInputs : MenuQuit(choice)
    \/ \E choice \in MenuInputs : MenuMulti(choice)
    \/ \E choice \in MenuInputs : MenuClear(choice)
    \/ \E choice \in MenuInputs : MenuCompressSelected(choice)
    \/ \E choice \in MenuInputs : MenuCompressAll(choice)
    \/ \E choice \in MenuInputs : MenuFile(choice)
    \/ MenuContinue

SpecCli == CliInit /\ [][CliNext]_vars

\* the session of a user who answers the continue prompt
SpecCliLive == SpecCli /\ WF_vars(MenuContinue)

\* await rl.question(...) rejects, at the menu prompt or at the continue
\* prompt: the error leaves menuLoop, interactiveMode's finally closes the
\* interface and cliAction exits with 1
MenuQuestionRejects ==
    /\ cPc \in {"menu", "continue"}
    /\ cRlOpen' = FALSE /\ cRlCloses' = cRlCloses + 1
    /\ CliFail("question rejected")
    /\ UNCHANGED <<cliOptions, cliMenu, cliSinks>>
    /\ UNCHANGED <<statsVars, normVars, pipeVars, batchVars, filterVars, outVars>>

\* the session when the line input may fail as well
SpecCliSession ==
    CliInit /\ [][CliNext \/ MenuQuestionRejects]_vars /\ WF_vars(MenuContinue)


(***************************************************************************)
(* The claims.                                                             *)
(***************************************************************************)
\* round((1 - compressedSize/originalSize) * 100), half up, of the exact
\* quotient: the floor of the value plus one half
ExactRatio(originalSize, compressedSize) ==
    (200 * (originalSize - compressedSize) + originalSize) \div (2 * originalSize)

\* C1: calculateStats returns both sizes unchanged, and the ratio
\* round((1 - compressedSize/originalSize) * 100), rounding half up, when
\* originalSize > 0, and the ratio 0 when originalSize = 0.
C1_RatioIsRoundedQuotient ==
    sPc = "done" =>
        /\ sStats.originalSize = sOrig
        /\ sStats.compressedSize = sComp
        /\ sStats.ratio = IF sOrig > 0 THEN ExactRatio(sOrig, sComp) ELSE 0

\* C8: the pipeline's output holds none of the input's comment tokens and
\* every other token of the input, unchanged and in the original order.
C8_TokensPreserved ==
    pPc = "done" => AllTokens(pOutput) = NonCommentTokens(pInput)

\* the lines of a text as processLines sees them: trimmed, the empty ones dropped
NonEmptyLines(s) ==
    LET lines == SplitLines(s, 1, << >>)
    IN  SelectSeq([i \in 1..Len(lines) |-> trim(lines[i])], LAMBDA l : Len(l) > 0)

\* a line break of the text stands between two word characters, which the
\* line join makes one word
JoinsWords(s) ==
    LET lines == NonEmptyLines(s)
    IN  \E i \in 1..(Len(lines) - 1) :
            /\ lines[i][Len(lines[i])] \in WordChar
            /\ lines[i + 1][1] \in WordChar

\* C9 as stated: advancedCompress(advancedCompress(s)) = advancedCompress(s)
\* for every input text s.
C9_Idempotent == nPc = "twice" => nTwice = nOnce

\* C9 as amended: advancedCompress(advancedCompress(s)) = advancedCompress(s)
\* for every input text s in which no line break stands between two word
\* characters (blank lines and the whitespace at the line edges aside).
C9_IdempotentUnlessWordsJoined ==
    (nPc = "twice" /\ ~JoinsWords(nInput)) => nTwice = nOnce

\* a text of several lines, none joining two words, that the normalizer
\* changed, normalized twice
C9_Witness ==
    /\ nPc = "twice"
    /\ ~JoinsWords(nInput)
    /\ Len(NonEmptyLines(nInput)) > 1
    /\ nOnce # nInput

\* import{foo}from'bar';
ImportNoSpaces ==
    <<"i","m","p","o","r","t","{","f","o","o","}",
      "f","r","o","m","'","b","a","r","'",";">>

\* import{foo}from 'bar';
ImportCompressed ==
    <<"i","m","p","o","r","t","{","f","o","o","}",
      "f","r","o","m"," ","'","b","a","r","'",";">>

\* C10 as stated: advancedCompress yields import{foo}from'bar'; for
\* import { foo } from 'bar';
C10_ImportScenario ==
    (nPc \in {"once", "twice"} /\ nInput = ImportText) => nOnce = ImportNoSpaces

\* C10 as amended: advancedCompress yields import{foo}from 'bar'; for
\* import { foo } from 'bar';  the whitespace after import, inside the braces
\* and before from is removed, the space between from and the quote stays.
C10_ImportScenarioKeepsSpace ==
    (nPc \in {"once", "twice"} /\ nInput = ImportText) => nOnce = ImportCompressed

\* the import scenario's text, normalized
C10_Witness == nPc = "once" /\ nInput = ImportText

(***************************************************************************)
(* The batch run.                                                          *)
(***************************************************************************)
\* the name of a file of the target directory, as the tags show it: a.ts
TagName(path) == <<FileLetters[FileIndex(path)], ".", "t", "s">>

\* C2: every successful run of compressTypeScriptFiles, compact or block
\* mode, returns an output whose length is exactly totalStats.compressedSize.
C2_OutputLengthIsCompressedSize ==
    (bPc = "done" /\ bEntry = "batch") =>
        Len(bResult.output) = bResult.totalStats.compressedSize

\* a finished run over two files or more, where the tags make the output
\* longer than the files' compressed contents together
C2_Witness ==
    /\ bPc = "done" /\ bEntry = "batch" /\ Len(bFiles) >= 2
    /\ Len(bResult.output) = bResult.totalStats.compressedSize
    /\ Len(bResult.output) > aggregateStats(bResult.files).totalCompressedSize

\* the positions of a list of paths in the file system are ascending
InListOrder(paths) ==
    \A i, j \in 1..Len(paths) : i < j => FileIndex(paths[i]) < FileIndex(paths[j])

\* the paths a finished run reports, in the order it reports them
ResultPaths == [i \in 1..Len(bSlots) |-> Resolved(bSlots)[i].path]

\* the tagged section of a file in the output, with what may stand before
\* the tag left aside: the tag, and the compressed content behind it
TagAndContent(path, preserve) ==
    IF preserve
    THEN BlockTagOpen \o TagName(path) \o BlockTagClose \o <<"\n">>
           \o defaultCompressionPipeline(FileContent(path)) \o <<"\n">>
    ELSE <<"/", "*">> \o TagName(path) \o <<"*", "/">>
           \o defaultCompressionPipeline(FileContent(path))

\* the text t stands in s at position i
OccursAt(s, i, t) == i + Len(t) - 1 <= Len(s) /\ SubSeq(s, i, i + Len(t) - 1) = t

\* the first position of text t in s, 0 when s does not hold it
FirstAt(s, t) ==
    IF \E i \in 1..Len(s) : OccursAt(s, i, t)
    THEN CHOOSE i \in 1..Len(s) :
             OccursAt(s, i, t) /\ \A j \in 1..(i - 1) : ~OccursAt(s, j, t)
    ELSE 0

\* C3: a run issues the reads of all its files before any completes, and
\* whatever the order the reads complete in, the entries of the result and
\* the tagged sections of the output stand in the order of the file list.
C3_OutputInInputOrder ==
    /\ bPc = "reading" => bIssued = 1..Len(bTargets) /\ Len(bTargets) > 0
    /\ bPc = "done" =>
         LET output == bResult.output
         IN  /\ ResultPaths = bTargets
             /\ InListOrder(bTargets)
             /\ bEntry = "batch" =>
                  bTargets = bFiles /\ bResult.files = Resolved(bSlots)
             /\ \A i \in 1..Len(bTargets) :
                  FirstAt(output, TagAndContent(bTargets[i], bPreserve)) > 0
             /\ \A i, j \in 1..Len(bTargets) : i < j =>
                  FirstAt(output, TagAndContent(bTargets[i], bPreserve))
                    < FirstAt(output, TagAndContent(bTargets[j], bPreserve))

\* a finished run whose reads completed in another order than the list's
C3_Witness ==
    /\ bPc = "done"
    /\ Len(bTargets) >= 2
    /\ \E i, j \in 1..Len(bOrder) : i < j /\ bOrder[i] > bOrder[j]

\* no index of the selection names a file of the list
ResolvesToNoFile ==
    \A k \in 1..Len(bSelection) : bSelection[k] + 1 > Len(bFiles)

\* the run has nothing to read
NothingToRead ==
    IF bEntry = "batch" THEN bFiles = << >> ELSE ResolvesToNoFile

\* C4: a run of compressTypeScriptFiles over an empty discovered list, and
\* a run of compressSelectedFiles whose selection resolves to no file, fail
\* with an explicit error: no read is issued and no result is returned.
C4_EmptyRunFails ==
    (bPc \in {"reading", "done", "failed"} /\ NothingToRead) =>
        /\ bPc = "failed"
        /\ bError = (IF bEntry = "batch" THEN "No TypeScript files found"
                     ELSE "No files selected")
        /\ bIssued = {}
        /\ bOrder = << >>
        /\ bResult = None

\* a selection-based run failed although the list has files and the
\* selection has indices: they name no file of the list
C4_Witness ==
    /\ bPc = "failed" /\ bEntry = "selected"
    /\ bFiles # << >> /\ bSelection # << >> /\ ResolvesToNoFile
    /\ bError = "No files selected"

\* the section of a file as the claim has it: nothing before the tag
ClaimedSection(path, compressed, preserve) ==
    IF preserve
    THEN BlockTagOpen \o TagName(path) \o BlockTagClose \o <<"\n">>
           \o compressed \o <<"\n">>
    ELSE <<"/", "*">> \o TagName(path) \o <<"*", "/">> \o compressed

\* the section of a file with a line feed before the block tag
SectionAfterLineFeed(path, compressed, preserve) ==
    IF preserve
    THEN <<"\n">> \o ClaimedSection(path, compressed, preserve)
    ELSE ClaimedSection(path, compressed, preserve)

\* the sections, joined by nothing in compact mode and by one line feed
\* in structure-preserving mode
RECURSIVE JoinedSections(_, _)
JoinedSections(sections, preserve) ==
    IF sections = << >> THEN << >>
    ELSE IF Len(sections) = 1 THEN sections[1]
    ELSE sections[1] \o (IF preserve THEN <<"\n">> ELSE << >>)
           \o JoinedSections(Tail(sections), preserve)

\* the compressed content of the i-th entry of a finished run
SlotCompressed(i) ==
    IF bEntry = "batch" THEN Resolved(bSlots)[i].compressedContent
    ELSE Resolved(bSlots)[i].compressed

\* C6 as stated: formatFileOutput yields /*relativePath*/compressedContent
\* in compact mode and /*=== relativePath ===*/, a line feed, the compressed
\* content and a line feed in structure-preserving mode, nothing before the
\* tag; the output joins the files by nothing, resp. by one line feed.
C6_SectionsAsStated ==
    bPc = "done" =>
        /\ bEntry = "batch" =>
             \A i \in 1..Len(bSlots) :
                 formatFileOutput(Resolved(bSlots)[i], TargetDir, bPreserve)
                   = ClaimedSection(Resolved(bSlots)[i].path,
                                    SlotCompressed(i), bPreserve)
        /\ bResult.output =
             JoinedSections([i \in 1..Len(bSlots) |->
                 ClaimedSection(Resolved(bSlots)[i].path,
                                SlotCompressed(i), bPreserve)],
                 bPreserve)

\* C6, amended: as stated in compact mode; in structure-preserving mode a
\* line feed stands before the tag of every file, the first included.
C6_SectionsAfterLineFeed ==
    bPc = "done" =>
        /\ bEntry = "batch" =>
             \A i \in 1..Len(bSlots) :
                 formatFileOutput(Resolved(bSlots)[i], TargetDir, bPreserve)
                   = SectionAfterLineFeed(Resolved(bSlots)[i].path,
                                          SlotCompressed(i), bPreserve)
        /\ bResult.output =
             JoinedSections([i \in 1..Len(bSlots) |->
                 SectionAfterLineFeed(Resolved(bSlots)[i].path,
                                      SlotCompressed(i), bPreserve)],
                 bPreserve)

\* a finished structure-preserving run over two files or more
C6_Witness ==
    /\ bPc = "done" /\ bEntry = "batch" /\ bPreserve /\ Len(bSlots) >= 2
    /\ bResult.output[1] = "\n"

C7_DestinationsExclusive ==
    /\ cOutputFile # None => cClipWrites = 0
    /\ cOutputFile = None => cFileWrites = 0
    /\ (cPc = "exited" /\ cExit = 0 /\ ~cInteractive) =>
         IF cOutputFile # None THEN cFileWrites = 1 ELSE cClipWrites = 1

(***************************************************************************)
(* The Textual Normalizer's output.                                        *)
(***************************************************************************)
\* a whitespace character stands immediately before or after a character
\* of { } : ; , = ( ) [ ] < > in the text
WhitespaceAtPunctuation(s) ==
    \E i \in 1..Len(s) :
        /\ s[i] \in Punct
        /\ \/ i > 1 /\ s[i - 1] \in WS
           \/ i < Len(s) /\ s[i + 1] \in WS

\* const x=1;
ConstCompressed == <<"c","o","n","s","t"," ","x","=","1",";">>

\* C11: the output of advancedCompress has no whitespace character
\* immediately before or after any of { } : ; , = ( ) [ ] < >, the later
\* keyword rules and the line join included; const x = 1; and a line feed
\* become const x=1;
C11_NoWhitespaceAtPunctuation ==
    nPc \in {"once", "twice"} =>
        /\ ~WhitespaceAtPunctuation(nOnce)
        /\ nInput = ConstText => nOnce = ConstCompressed

\* a text with whitespace at its punctuation, of which the output keeps
\* the punctuation
C11_Witness ==
    /\ nPc = "once"
    /\ WhitespaceAtPunctuation(nInput)
    /\ \E i \in 1..Len(nOnce) : nOnce[i] \in Punct
    /\ Len(NonEmptyLines(nInput)) > 1

\* the text consists of whitespace only
OnlyWhitespace(s) == \A i \in 1..Len(s) : s[i] \in WS

\* C12: the output of advancedCompress is a single line: it holds no
\* newline character (line feed or carriage return), neither begins nor
\* ends with whitespace, and is empty when the input is whitespace only.
C12_SingleLine ==
    nPc \in {"once", "twice"} =>
        /\ \A i \in 1..Len(nOnce) : nOnce[i] \notin LineTerm
        /\ nOnce # << >> => nOnce[1] \notin WS /\ nOnce[Len(nOnce)] \notin WS
        /\ OnlyWhitespace(nInput) => nOnce = << >>

(***************************************************************************)
(* Read failures in a batch run.                                           *)
(***************************************************************************)
\* C13: when the read of a file fails, processFile rejects with that same
\* read error, and no file is read twice; the run rejects with the error
\* of the first read that failed and returns no result: no files list, no
\* output, no statistics, whatever reads have completed.
C13_ReadErrorPropagates ==
    /\ \A k \in 1..Len(bRejected) :
           bRejected[k].error = FsError(bTargets[bRejected[k].index])
    /\ \A i, j \in 1..Len(bReads) : bReads[i] = bReads[j] => i = j
    /\ bRejected # << >> =>
           /\ bPc = "failed"
           /\ bError = bRejected[1].error
           /\ bResult = None

\* a run has rejected with the error of a read although another read had
\* completed before, and one more has completed since
C13_Witness ==
    /\ bPc = "failed" /\ bEntry = "batch"
    /\ Len(bRejected) = 1
    /\ bError = FsError(bTargets[bRejected[1].index])
    /\ Len(bOrder) >= 2
    /\ bPending = {}

(***************************************************************************)
(* The interactive menu.                                                   *)
(***************************************************************************)
\* the error of a menu entry is on the screen, above the continue prompt
MenuFailureShown ==
    /\ cPc = "continue"
    /\ cMessage \in {MenuErrors.read, MenuErrors.clipboard, MenuErrors.nofiles,
                     MenuErrors.noselection}

SelectionInRange ==
    \A k \in 1..Len(bSelection) : bSelection[k] + 1 <= Len(bFiles)

\* the indices selected, whatever the order they were entered in
SelectedSet == {bSelection[k] : k \in 1..Len(bSelection)}

\* C15: whatever the order the indices of a selection were entered or
\* toggled in, compress-selected emits exactly one tagged section for every
\* index selected, in ascending order of the indices.
C15_SectionsInAscendingOrder ==
    (bPc = "done" /\ bEntry = "selected" /\ SelectionInRange) =>
        LET asc == Ascending(SelectedSet)
            file(k) == bFiles[asc[k] + 1]
        IN  /\ bResult.fileCount = Cardinality(SelectedSet)
            /\ bResult.output =
                 JoinedSections(
                     [k \in 1..Len(asc) |->
                         SectionAfterLineFeed(
                             file(k),
                             defaultCompressionPipeline(FileContent(file(k))),
                             bPreserve)],
                     bPreserve)

\* the third file was selected before the first, in block mode, and the
\* section of the first stands before that of the third
C15_Witness ==
    /\ bPc = "done" /\ bEntry = "selected" /\ bPreserve
    /\ Len(bFiles) = MaxFiles /\ bSelection = <<2, 0>>
    /\ FirstAt(bResult.output, TagAndContent(bFiles[1], bPreserve)) > 0
    /\ FirstAt(bResult.output, TagAndContent(bFiles[1], bPreserve))
         < FirstAt(bResult.output, TagAndContent(bFiles[3], bPreserve))

\* menuLoop handles the entry choice: one step of the menu
MenuStep(choice) ==
    \/ MenuInvalid(choice)
    \/ MenuToggle(choice)
    \/ MenuQuit(choice)
    \/ MenuMulti(choice)
    \/ MenuClear(choice)
    \/ MenuCompressSelected(choice)
    \/ MenuCompressAll(choice)
    \/ MenuFile(choice)

\* C16: in multi-select mode the entry m leaves the mode and keeps the
\* selection; outside the mode the entry m enters it.
C16_MLeavesMultiSelect ==
    [][MenuStep(<<"m">>) =>
         /\ cSelection' = cSelection
         /\ cMulti' = ~cMulti]_vars

(***************************************************************************)
(* The file filter.                                                        *)
(***************************************************************************)
DotTs == <<".", "t", "s">>

\* C17: with the default patterns the filter accepts a name if and only if
\* it ends in .ts and does not end in .d.ts, .test.ts or .spec.ts: only the
\* suffix decides, and names such as id.ts and add.ts are accepted.
C17_SuffixDecides ==
    fPc = "done" =>
        /\ fAccepted <=>
             /\ endsWith(fName, DotTs)
             /\ ~endsWith(fName, <<".", "d">> \o DotTs)
             /\ ~endsWith(fName, <<".", "t", "e", "s", "t">> \o DotTs)
             /\ ~endsWith(fName, <<".", "s", "p", "e", "c">> \o DotTs)
        /\ fName \in {<<"i", "d">> \o DotTs, <<"a", "d", "d">> \o DotTs}
             => fAccepted

\* the token is a number: decimal digits and nothing else
Numeric(token) ==
    token # << >> /\ \A k \in 1..Len(token) : token[k] \in Digit

\* the indices an entry names as the claim has it: of its tokens, those
\* that are numbers from 1 to fileCount
RECURSIVE StatedIndices(_, _)
StatedIndices(pieces, fileCount) ==
    IF pieces = << >> THEN << >>
    ELSE LET token == Head(pieces)
             value == DigitsValue(token, 1, Len(token))
         IN  (IF Numeric(token) /\ value >= 1 /\ value <= fileCount
              THEN <<value - 1>> ELSE << >>)
               \o StatedIndices(Tail(pieces), fileCount)

\* the indices of a selection, as a set
Indices(selection) == {selection[k] : k \in 1..Len(selection)}

\* the selection holds indices of listed files only, each once
SelectionWithinList ==
    /\ Indices(cSelection) \subseteq 0..(Len(cFiles) - 1)
    /\ Cardinality(Indices(cSelection)) = Len(cSelection)

\* C18: the selection holds only indices of listed files; out-of-range,
\* zero, negative and non-numeric tokens of an entry never enter it, and an
\* index entered while it is selected is removed, so that the same index
\* twice in one entry leaves the selection as it was.
C18_SelectionInRange ==
    /\ []SelectionWithinList
    /\ [][\A choice \in MenuInputs :
            (cMulti /\ (MenuToggle(choice) \/ MenuInvalid(choice))) =>
                Indices(cSelection') =
                    Indices(toggleSelection(
                        cSelection,
                        StatedIndices(SplitChoice(choice, 1, << >>),
                                      Len(cFiles))))]_vars

\* C19: compress-selected leaves an empty selection and the mode off,
\* whether it succeeded or failed; clear empties the selection and keeps
\* the mode; compress-all, a single file and an invalid entry leave both
\* as they were; compress-selected and clear are accepted only when the
\* selection is not empty.
C19_SelectionAndModeTransitions ==
    [][\A choice \in MenuInputs :
          (cPc = "menu" /\ MenuStep(choice)) =>
              LET type == Parsed(choice).type
              IN  /\ type \in {"compress-selected", "clear"} => cSelection # << >>
                  /\ type = "compress-selected" =>
                       cSelection' = << >> /\ cMulti' = FALSE
                  /\ type = "clear" =>
                       cSelection' = << >> /\ cMulti' = cMulti
                  /\ type \in {"all", "file", "null"} =>
                       cSelection' = cSelection /\ cMulti' = cMulti]_vars

\* compress-selected has run and copied its output: the continue prompt
\* stands, the selection is empty and the mode is off
C19_Witness ==
    /\ cPc = "continue"
    /\ cMessage = "Selected files compressed and copied to clipboard"
    /\ cClipText # << >>
    /\ cSelection = << >> /\ ~cMulti

(***************************************************************************)
(* The sink of a compression.                                              *)
(***************************************************************************)
\* the errors of discovery and of the reads
DiscoveryOrReadErrors ==
    {"discovery failed", "No TypeScript files found"}
        \cup {FsErrors[i] : i \in 1..Len(FsErrors)}

\* C20: in a normal run of the command line and in compressToClipboard
\* the sink, clipboard or output file, is written at most once, and only
\* after every file of the batch has been read and compressed; when the
\* discovery or a read fails nothing is written to either; and
\* compressToClipboard returns its result only after the clipboard command
\* has exited with code 0.
C20_SinkWrittenOnceAfterAllReads ==
    /\ oClipWrites + oFileWrites <= 1
    /\ oClipWrites + oFileWrites > 0 =>
         /\ oCompleted = 1..Len(oFiles) /\ oPending = {} /\ oFiles # << >>
         /\ oResult # << >>
         /\ oSinkText = oResult[1].output
    /\ oError \in DiscoveryOrReadErrors =>
         oClipWrites = 0 /\ oFileWrites = 0 /\ oSinkText = << >>
    /\ (oCaller = "compressToClipboard" /\ oReturned # << >>) =>
         /\ oReturned = oResult /\ oResult # << >>
         /\ oExitCode = <<0>>
         /\ oClipWrites = 1

\* compressToClipboard has returned the result of a batch of two files or
\* more after the clipboard command took the output and exited with 0
C20_Witness ==
    /\ oPc = "returned" /\ oCaller = "compressToClipboard"
    /\ Len(oFiles) >= 2 /\ oCompleted = 1..Len(oFiles)
    /\ oClipWrites = 1 /\ oSinkText = oResult[1].output /\ oSinkText # << >>
    /\ oExitCode = <<0>>

(***************************************************************************)
(* The ways out of interactive mode.                                       *)
(***************************************************************************)
\* the entry is q, in either case, white space around it left aside
IsQuit(choice) == trim(toLowerCase(choice)) = <<"q">>

\* C21: the menu ends only through the entry q, in either case: every
\* other entry, valid or not, and every outcome of an action lead back to
\* the prompt, by way of the continue prompt where the code has one; and on
\* every way out of interactive mode (quit, no file found, an error that
\* leaves the loop) the readline interface is closed exactly once.
C21_QuitOnlyAndClosedOnce ==
    /\ [][\A choice \in MenuInputs :
            (cPc = "menu" /\ MenuStep(choice)) =>
                IF IsQuit(choice)
                THEN cPc' = "exited" /\ cMessage' = "Goodbye!" /\ cError' = None
                ELSE cPc' \in {"menu", "continue"}]_vars
    /\ [][(cPc \in {"menu", "continue"} /\ cPc' = "exited") =>
             (cMessage' = "Goodbye!" \/ cError' # None)]_vars
    /\ [][cPc = "continue" => (cPc' = "menu" \/ cError' # None)]_vars
    /\ (cPc = "continue" ~> cPc \in {"menu", "exited"})
    /\ [](cPc \in {"menu", "continue"} => cRlOpen /\ cRlCloses = 0)
    /\ []((cPc = "exited" /\ cDirExists /\ cInteractive) =>
             ~cRlOpen /\ cRlCloses = 1)

\* an error has left the loop of a session over a non-empty list, and the
\* interface was closed once
C21_Witness ==
    /\ cPc = "exited" /\ cInteractive /\ cFiles # << >>
    /\ cError = "question rejected" /\ cExit = 1
    /\ ~cRlOpen /\ cRlCloses = 1

=============================================================================
